---- MODULE Spec2Model ----
(***************************************************************************)
(* NexLearn document-graph core: the zustand graph store (appStore.ts),    *)
(* the overlay renderer and heading projections of NodeDetailView.tsx,     *)
(* the node utilities (nodeUtils) and the generation call sites.           *)
(*                                                                         *)
(* Text is a sequence of one-character strings.  Ids produced by           *)
(* crypto.randomUUID() are fresh naturals.                                 *)
(***************************************************************************)
EXTENDS Integers, Sequences, FiniteSets, TLC

\* ------------------------------------------------------------------------
\* Bounds of the model
\* ------------------------------------------------------------------------
MaxTextLen == 3
MaxEntities == 2
MaxLines == 4
MaxSectionLines == 3
MaxStoreIds == 2
MaxStoreLen == 2
MaxNodes == 3
MaxEdges == 2
MaxIdeas == 2
MaxInFlight == 2
MaxGestures == 5
MaxContextIds == 3
MaxContextLen == 2
MaxAnnotations == 2
MaxProjectGestures == 4

VARIABLES
  pcContent,      \* processContent: argument `content`
  pcAnnotations,  \* processContent: argument `annotations`
  pcAnimations,   \* processContent: argument `animations`
  pcResult,       \* processContent: returned markup (a token sequence)
  pcRendered,     \* TRUE once processContent has been applied to the arguments
  dvNode,               \* NodeDetailView: the node shown (theme, contentMd, toc, annotations, animations)
  mindmapData,          \* NodeDetailView: useState mindmapData (absent = null)
  selectedMindmapNode,  \* NodeDetailView: useState selectedMindmapNode (absent = null)
  sidePanel,            \* NodeDetailView: what renderMindmapContent() currently returns
  effectPending,        \* NodeDetailView: the mindmapData effect is scheduled and has not run
  nodes,           \* appStore: nodes
  edges,           \* appStore: edges
  currentProject,  \* appStore: currentProject (absent = null)
  storeOp,         \* the last call of an operation of the store made by its caller
  requests,        \* the calls of apiClient.generateNode that have not settled
  ideaLoop,        \* IdeaDialog.createSelectedNodes: absent, or parent, ideas left, dialog open
  nextNodeId,      \* the next id crypto.randomUUID() gives to a node
  nextEdgeId,      \* the next id crypto.randomUUID() gives to an edge
  settled,         \* the request or file read the last step settled and how, else absent
  gestures,        \* how many clicks, drags and key presses the canvas and the dialogs got
  importing,       \* SettingsPanel: the file handleImportChange is reading (absent = none)
  importError,     \* SettingsPanel: useState importError (absent = null)
  remote,          \* backend: the project saved for the user (absent = none)
  selectedNode,    \* WorkspacePage: useState selectedNode, the node of the detail view
  nextAnnotationId,  \* the next id crypto.randomUUID() gives to an annotation
  nodeContext,     \* buildNodeContext: the node it was called for and what it returned
  treeNodes,       \* tree utilities and Markdown export: argument `nodes`
  treeCall,        \* the call of a tree utility that returned: its arguments and its result
  depthWalk,       \* getNodeDepth: `current` and `depth` of the running call (absent = none)
  backend,         \* backend: the projects saved for the user, in the order of last_opened_at
  http,            \* WorkspacePage: the requests to /projects/current, in the order sent
  saveDue,         \* WorkspacePage: the effect on [nodes, edges] is scheduled and has not run
  projectId,       \* appStore: currentProject.id ("" = no current project or not tracked)
  animationRequests  \* NodeDetailView: per animation id, how generateAnimationSafe stands

vars == <<pcContent, pcAnnotations, pcAnimations, pcResult, pcRendered,
          dvNode, mindmapData, selectedMindmapNode, sidePanel, effectPending,
          nodes, edges, currentProject, storeOp,
          requests, ideaLoop, nextNodeId, nextEdgeId, settled, gestures,
          importing, importError, remote, selectedNode, nextAnnotationId, nodeContext,
          treeNodes, treeCall, depthWalk,
          backend, http, saveDue, projectId, animationRequests>>

syncVars == <<backend, http, saveDue, projectId>>

treeVars == <<treeNodes, treeCall, depthWalk>>

viewVars == <<dvNode, mindmapData, selectedMindmapNode, sidePanel, effectPending>>

overlayVars == <<pcContent, pcAnnotations, pcAnimations, pcResult, pcRendered>>

storeVars == <<nodes, edges, currentProject, storeOp>>

generationVars == <<requests, ideaLoop, nextNodeId, nextEdgeId, settled, gestures>>

projectVars == <<importing, importError, remote, selectedNode, nextAnnotationId, nodeContext>>

\* the call recorded in storeOp: the operation, the id it was given, the edge it was given
\* (addEdge only) and how many nodes and edges of the store carried or touched that id
Call(op, id, arg, nodeHits, edgeHits) ==
  [op |-> op, id |-> id, arg |-> arg, nodeHits |-> nodeHits, edgeHits |-> edgeHits]

NoCall == Call("none", 0, <<>>, 0, 0)

\* the state of createDefaultState()
EmptyStore ==
  /\ nodes = <<>>
  /\ edges = <<>>
  /\ currentProject = <<>>

\* no generation was started
GenerationIdle ==
  /\ requests = {}
  /\ ideaLoop = <<>>
  /\ nextNodeId = 1
  /\ nextEdgeId = 1
  /\ settled = <<>>
  /\ gestures = 0

\* nothing was imported, saved or opened, and buildNodeContext was not called
ProjectIdle ==
  /\ importing = <<>>
  /\ importError = <<>>
  /\ remote = <<>>
  /\ selectedNode = <<>>
  /\ nextAnnotationId = 1
  /\ nodeContext = <<>>

\* the workspace page was not entered
SyncIdle ==
  /\ backend = <<>>
  /\ http = <<>>
  /\ saveDue = FALSE
  /\ projectId = ""

\* no animation was asked for
AnimationIdle == animationRequests = <<>>

\* no tree utility was called
TreeIdle ==
  /\ treeNodes = <<>>
  /\ treeCall = <<>>
  /\ depthWalk = <<>>

\* the graph is not in use in the specifications of the detail view
GraphIdle == EmptyStore /\ storeOp = NoCall /\ GenerationIdle /\ ProjectIdle

\* ------------------------------------------------------------------------
\* Generic helpers
\* ------------------------------------------------------------------------
NoValue == "undefined"

Min(a, b) == IF a < b THEN a ELSE b
Max(a, b) == IF a > b THEN a ELSE b

RECURSIVE SeqsUpTo(_, _)
\* all sequences over S of length 0..n
SeqsUpTo(S, n) ==
  IF n = 0 THEN {<<>>}
  ELSE LET shorter == SeqsUpTo(S, n - 1)
       IN shorter \cup {Append(s, x) : s \in {t \in shorter : Len(t) = n - 1}, x \in S}

\* String.prototype.slice(from, to) for 0 <= from, 0-based, end exclusive, clamped
Slice(s, from, to) ==
  LET t == Min(to, Len(s))
  IN IF from >= t THEN <<>> ELSE SubSeq(s, from + 1, t)

\* String.prototype.indexOf(needle): 0-based first occurrence, -1 if none
IndexOf(s, needle) ==
  LET hits == {i \in 0..(Len(s) - Len(needle)) : Slice(s, i, i + Len(needle)) = needle}
  IN IF Len(needle) > Len(s) \/ hits = {} THEN -1
     ELSE CHOOSE i \in hits : \A j \in hits : i <= j

\* ------------------------------------------------------------------------
\* OverlayEngine: processContent (NodeDetailView.tsx)
\* ------------------------------------------------------------------------
\* An optional value is a sequence of length 0 (absent) or 1 (present).
Range(s, e) == <<[start |-> s, end |-> e]>>
NoRange == <<>>

\* one piece of the markup string: a character of the content or an inserted tag.
\* `of` is the position of the entity a tag was emitted for (0 for text).
TextToken(c) == [k |-> "text", tag |-> c, data |-> <<>>, of |-> 0]
Tag(kind, tag, data, of) == [k |-> kind, tag |-> tag, data |-> data, of |-> of]

TextTokens(s) == [i \in 1..Len(s) |-> TextToken(s[i])]

\* entities pushed for the annotations, in order
AnnotationEntities(content, annotations) ==
  LET F[i \in 0..Len(annotations)] ==
        IF i = 0 THEN <<>>
        ELSE LET anno == annotations[i] IN
             IF anno.range # NoRange
             THEN Append(F[i - 1], [start |-> anno.range[1].start, end |-> anno.range[1].end,
                                    type |-> anno.type, id |-> anno.id, text |-> anno.text])
             ELSE IF anno.text # <<>> /\ IndexOf(content, anno.text) # -1
             THEN Append(F[i - 1], [start |-> IndexOf(content, anno.text),
                                    end |-> IndexOf(content, anno.text) + Len(anno.text),
                                    type |-> anno.type, id |-> anno.id, text |-> anno.text])
             ELSE F[i - 1]
  IN F[Len(annotations)]

\* entities pushed for the animations, in order
AnimationEntities(content, animations) ==
  LET F[i \in 0..Len(animations)] ==
        IF i = 0 THEN <<>>
        ELSE LET anim == animations[i] IN
             IF anim.meta.range # NoRange
             THEN Append(F[i - 1], [start |-> anim.meta.range[1].start,
                                    end |-> anim.meta.range[1].end,
                                    type |-> "animation", id |-> anim.id, text |-> anim.meta.note])
             ELSE IF anim.meta.note # <<>> /\ IndexOf(content, anim.meta.note) # -1
             THEN Append(F[i - 1], [start |-> IndexOf(content, anim.meta.note),
                                    end |-> IndexOf(content, anim.meta.note) + Len(anim.meta.note),
                                    type |-> "animation", id |-> anim.id, text |-> anim.meta.note])
             ELSE F[i - 1]
  IN F[Len(animations)]

CollectEntities(content, annotations, animations) ==
  AnnotationEntities(content, annotations) \o AnimationEntities(content, animations)

\* a plausible slip: the end of the range is not compared with the length of the text
ValidRangeNoEnd(e, content) == e.start >= 0 /\ e.start < e.end

\* "Validate range"
ValidRange(e, content) == e.start >= 0 /\ e.end <= Len(content) /\ e.start < e.end

\* two markers per entity with a valid range: start, then end
CreateMarkers(entities, content) ==
  LET F[i \in 0..Len(entities)] ==
        IF i = 0 THEN <<>>
        ELSE IF ValidRange(entities[i], content)
             THEN F[i - 1] \o <<[index |-> entities[i].start, type |-> "start", entity |-> i],
                                [index |-> entities[i].end, type |-> "end", entity |-> i]>>
             ELSE F[i - 1]
  IN F[Len(entities)]

\* a plausible slip: at equal offsets, 'start' sorts before 'end'
MarkerCompareStartFirst(a, b) ==
  IF a.index # b.index THEN a.index - b.index
  ELSE IF a.type # b.type THEN (IF a.type = "start" THEN -1 ELSE 1)
  ELSE 0

\* the comparator of markers.sort: index ascending, at equal index 'end' before 'start'
MarkerCompare(a, b) ==
  IF a.index # b.index THEN a.index - b.index
  ELSE IF a.type # b.type THEN (IF a.type = "end" THEN -1 ELSE 1)
  ELSE 0

\* Array.prototype.sort is stable: an element goes after all those not greater
InsertMarker(sorted, m) ==
  LET p == Cardinality({i \in 1..Len(sorted) : MarkerCompare(sorted[i], m) <= 0})
  IN SubSeq(sorted, 1, p) \o <<m>> \o SubSeq(sorted, p + 1, Len(sorted))

SortMarkers(markers) ==
  LET F[i \in 0..Len(markers)] ==
        IF i = 0 THEN <<>> ELSE InsertMarker(F[i - 1], markers[i])
  IN F[Len(markers)]

\* the open tag of an entity: none is written for a type outside the four branches
OpenTag(e, of) ==
  IF e.type = "favorite" THEN <<Tag("open", "span.favorite-highlight", <<ToString(e.id)>>, of)>>
  ELSE IF e.type = "comment" THEN <<Tag("open", "span.annotation-highlight", e.text, of)>>
  ELSE IF e.type = "highlight" THEN <<Tag("open", "a.highlight", <<>>, of)>>
  ELSE IF e.type = "animation" THEN <<Tag("open", "span.animation-link", <<ToString(e.id)>>, of)>>
  ELSE <<>>

\* the close tag of an entity
CloseTag(e, of) ==
  IF e.type = "highlight" THEN <<Tag("close", "a", <<>>, of)>>
  ELSE <<Tag("close", "span", <<>>, of)>>

\* a plausible slip: the copied text runs one character past the marker
TextBeforeOffByOne(content, lastIndex, index) ==
  IF index > lastIndex THEN TextTokens(Slice(content, lastIndex, index + 1)) ELSE <<>>

\* "Append text before marker"
TextBefore(content, lastIndex, index) ==
  IF index > lastIndex THEN TextTokens(Slice(content, lastIndex, index)) ELSE <<>>

\* "Append remaining text"
RemainingText(content, lastIndex) ==
  IF lastIndex < Len(content) THEN TextTokens(Slice(content, lastIndex, Len(content))) ELSE <<>>

\* "3. Build string": the sweep over the sorted markers
BuildString(content, entities, markers) ==
  LET F[i \in 0..Len(markers)] ==
        IF i = 0 THEN [result |-> <<>>, lastIndex |-> 0]
        ELSE LET m == markers[i]
                 prev == F[i - 1]
                 copied == TextBefore(content, prev.lastIndex, m.index)
                 last == IF m.index > prev.lastIndex THEN m.index ELSE prev.lastIndex
                 tag == IF m.type = "start" THEN OpenTag(entities[m.entity], m.entity)
                        ELSE CloseTag(entities[m.entity], m.entity)
             IN [result |-> prev.result \o copied \o tag, lastIndex |-> last]
      swept == F[Len(markers)]
  IN swept.result \o RemainingText(content, swept.lastIndex)

processContent(content, annotations, animations) ==
  IF content = <<>> THEN <<>>
  ELSE LET entities == CollectEntities(content, annotations, animations) IN
       IF Len(entities) = 0 THEN TextTokens(content)
       ELSE BuildString(content, entities, SortMarkers(CreateMarkers(entities, content)))

\* ---- inputs of the overlay specification ----
Chars == {"a", "b"}
Texts == SeqsUpTo(Chars, MaxTextLen)
Needles == SeqsUpTo(Chars, 2) \ {<<>>}
AnnotationTypes == {"highlight", "comment", "note", "favorite", NoValue}
StoredRanges == {Range(s, e)[1] : s \in -1..(MaxTextLen - 1), e \in 0..MaxTextLen}

\* annotation shapes: with a stored range, or legacy records located by their text
AnnotationShapes ==
  {[range |-> <<r>>, text |-> <<"a">>, type |-> t] : r \in StoredRanges, t \in AnnotationTypes}
  \cup {[range |-> NoRange, text |-> n, type |-> t] : n \in Needles, t \in AnnotationTypes}

AnimationShapes ==
  {[range |-> <<r>>, note |-> <<"a">>] : r \in StoredRanges}
  \cup {[range |-> NoRange, note |-> n] : n \in Needles}

\* ids are unique per list (crypto.randomUUID)
MkAnnotations(shapes) ==
  [i \in 1..Len(shapes) |->
     [id |-> i, range |-> shapes[i].range, text |-> shapes[i].text, type |-> shapes[i].type]]

MkAnimations(shapes, base) ==
  [i \in 1..Len(shapes) |->
     [id |-> base + i,
      meta |-> [range |-> shapes[i].range, note |-> shapes[i].note, status |-> "completed"]]]

\* the detail view is not in use in the overlay specification
ViewIdle ==
  /\ dvNode = [theme |-> <<>>, contentMd |-> <<>>, toc |-> <<>>,
               annotations |-> <<>>, animations |-> <<>>]
  /\ mindmapData = <<>>
  /\ selectedMindmapNode = <<>>
  /\ sidePanel = <<>>
  /\ effectPending = FALSE

OverlayInit ==
  /\ TreeIdle
  /\ SyncIdle
  /\ AnimationIdle
  /\ ViewIdle
  /\ GraphIdle
  /\ pcContent \in Texts
  /\ \E na \in 0..MaxEntities : \E nm \in 0..(MaxEntities - na) :
       \E sa \in [1..na -> AnnotationShapes] : \E sm \in [1..nm -> AnimationShapes] :
         /\ pcAnnotations = MkAnnotations(sa)
         /\ pcAnimations = MkAnimations(sm, na)
  /\ pcResult = <<>>
  /\ pcRendered = FALSE

\* the text view renders processContent(node.contentMd, node.annotations, node.animations)
ProcessContent ==
  /\ ~pcRendered
  /\ pcResult' = processContent(pcContent, pcAnnotations, pcAnimations)
  /\ pcRendered' = TRUE
  /\ UNCHANGED <<pcContent, pcAnnotations, pcAnimations>>
  /\ UNCHANGED <<syncVars, animationRequests, treeVars, projectVars, viewVars, storeVars, generationVars>>

OverlayNext == ProcessContent

SpecOverlay == OverlayInit /\ [][OverlayNext]_vars

\* ---- properties of the overlay ----
IsTextToken(t) == t.k = "text"
\* the markup with every inserted tag removed
StripTags(result) ==
  LET kept == SelectSeq(result, IsTextToken) IN [i \in 1..Len(kept) |-> kept[i].tag]

pcEntities == CollectEntities(pcContent, pcAnnotations, pcAnimations)
pcValid == {i \in 1..Len(pcEntities) : ValidRange(pcEntities[i], pcContent)}
EmitsOpenTag(e) == e.type \in {"favorite", "comment", "highlight", "animation"}

\* C1 (round trip): once processContent has rendered a text with any annotations and
\* animations, removing the inserted tags from the markup gives back exactly the text:
\* no character dropped, duplicated or reordered, whatever the ranges overlap or nest.
OverlayRoundTrip == pcRendered => StripTags(pcResult) = pcContent

\* C1 witness: a rendering of two valid, properly overlapping ranges with tags present
OverlayRoundTripWitness ==
  /\ pcRendered
  /\ \E i, j \in pcValid :
       /\ pcEntities[i].start < pcEntities[j].start
       /\ pcEntities[j].start < pcEntities[i].end
       /\ pcEntities[i].end < pcEntities[j].end
  /\ Len(pcResult) >= Len(pcContent) + 4

\* C2 (tie-break): for entities A, B with valid ranges and A.end = B.start, every close
\* tag emitted for A stands before every open tag emitted for B in the markup,
\* whichever of A and B was supplied first.
OverlayTieBreak ==
  pcRendered =>
    \A a, b \in pcValid :
      pcEntities[a].end = pcEntities[b].start =>
        \A p, q \in 1..Len(pcResult) :
          (/\ pcResult[p].k = "close" /\ pcResult[p].of = a
           /\ pcResult[q].k = "open" /\ pcResult[q].of = b) => p < q

\* C2 witness: adjacent regions, B supplied before A, both tags emitted
OverlayTieBreakWitness ==
  /\ pcRendered
  /\ \E a, b \in pcValid :
       /\ pcEntities[a].end = pcEntities[b].start
       /\ b < a
       /\ EmitsOpenTag(pcEntities[b])
       /\ \E p, q \in 1..Len(pcResult) :
            /\ pcResult[p].k = "close" /\ pcResult[p].of = a
            /\ pcResult[q].k = "open" /\ pcResult[q].of = b

\* validate(range, textLength): 0 <= start < end <= textLength
InText(e, content) == 0 <= e.start /\ e.start < e.end /\ e.end <= Len(content)

\* the positions of the entities whose range lies in the text
pcInText == {i \in 1..Len(pcEntities) : InText(pcEntities[i], pcContent)}

\* the tags of the markup that were emitted for the entity at a position
TagsOf(result, i) == {p \in 1..Len(result) : result[p].k # "text" /\ result[p].of = i}

\* a piece of markup as it reads, without the position of the entity it was emitted for
AsWritten(result) ==
  [p \in 1..Len(result) |-> [k |-> result[p].k, tag |-> result[p].tag, data |-> result[p].data]]

\* the markup of a text on which only the entities with a range in the text are laid
MarkupOfInText(content, entities) ==
  LET within(e) == InText(e, content)
      kept == SelectSeq(entities, within)
  IN BuildString(content, kept, SortMarkers(CreateMarkers(kept, content)))

\* C14 (range validation): once a text is rendered, an entity has tags in the markup if
\* and only if its range satisfies 0 <= start < end <= len(text); and the markup reads
\* exactly as the markup of the same text with the other entities left out.
RangeValidationGates ==
  pcRendered =>
    /\ \A i \in 1..Len(pcEntities) : (TagsOf(pcResult, i) # {}) <=> (i \in pcInText)
    /\ pcContent # <<>> =>
         AsWritten(pcResult) = AsWritten(MarkupOfInText(pcContent, pcEntities))

\* C14 witness: a rendering with an entity that ends past the text and so has no tag, next
\* to an entity in the text that has its two tags
RangeValidationGatesWitness ==
  /\ pcRendered
  /\ \E i, j \in 1..Len(pcEntities) :
       /\ pcEntities[i].start >= 0
       /\ pcEntities[i].start < pcEntities[i].end
       /\ pcEntities[i].end > Len(pcContent)
       /\ TagsOf(pcResult, i) = {}
       /\ j \in pcInText
       /\ Cardinality(TagsOf(pcResult, j)) = 2

\* the number of characters of the text that stand before position p of the markup
OffsetOf(result, p) == Cardinality({q \in 1..(p - 1) : result[q].k = "text"})

\* the element a tag opens or closes
ElementOf(t) == IF t.tag \in {"a", "a.highlight"} THEN "a" ELSE "span"

\* C19 as stated: once a text is rendered, every entity with a range in the text, whatever
\* its kind, has exactly one open tag, at its start offset, and exactly one close tag of
\* the same element, at its end offset.
OneOpenOneClose ==
  pcRendered =>
    \A i \in pcInText :
      \E p, q \in TagsOf(pcResult, i) :
        /\ TagsOf(pcResult, i) = {p, q}
        /\ pcResult[p].k = "open" /\ OffsetOf(pcResult, p) = pcEntities[i].start
        /\ pcResult[q].k = "close" /\ OffsetOf(pcResult, q) = pcEntities[i].end
        /\ ElementOf(pcResult[p]) = ElementOf(pcResult[q])

\* the open tags before position q of the markup whose entity has no close tag before q
UnclosedBefore(result, q) ==
  {p \in 1..(q - 1) :
     /\ result[p].k = "open"
     /\ ~\E c \in (p + 1)..(q - 1) : result[c].k = "close" /\ result[c].of = result[p].of}

\* C20 as stated: once a text is rendered, every close tag of the markup belongs to the
\* entity of the last open tag before it that is still unclosed.
ProperlyNested ==
  pcRendered =>
    \A q \in 1..Len(pcResult) :
      pcResult[q].k = "close" =>
        /\ UnclosedBefore(pcResult, q) # {}
        /\ \E p \in UnclosedBefore(pcResult, q) :
             /\ \A r \in UnclosedBefore(pcResult, q) : r <= p
             /\ pcResult[p].of = pcResult[q].of

\* the tags of the markup that were emitted for the annotation or animation with an id
TagsOfId(result, entities, id) ==
  {p \in 1..Len(result) : result[p].k # "text" /\ entities[result[p].of].id = id}

\* C21 as stated: once a text is rendered, an annotation whose stored range is invalid for
\* the text (start < 0, start >= end or end > len(text)) has its tags around the first
\* occurrence of its text when the text occurs, and has no tag when it does not.
StaleRangeFallback ==
  pcRendered =>
    \A k \in 1..Len(pcAnnotations) :
      (pcAnnotations[k].range # NoRange /\ ~InText(pcAnnotations[k].range[1], pcContent)) =>
        LET tags == TagsOfId(pcResult, pcEntities, pcAnnotations[k].id)
            idx == IndexOf(pcContent, pcAnnotations[k].text)
        IN IF idx # -1
           THEN /\ \E q \in tags : /\ pcResult[q].k = "close"
                                   /\ OffsetOf(pcResult, q) = idx + Len(pcAnnotations[k].text)
                /\ \A q \in tags : pcResult[q].k = "open" => OffsetOf(pcResult, q) = idx
           ELSE tags = {}

\* ------------------------------------------------------------------------
\* HeadingProjector: computedToc, the mindmapData effect and renderMindmapContent
\* (NodeDetailView.tsx), parseTocFromMarkdown (nodeUtils)
\* ------------------------------------------------------------------------
Whitespace == {" ", "\t"}
NL == "\n"

RECURSIVE TrimEnd(_)
TrimEnd(s) ==
  IF s # <<>> /\ s[Len(s)] \in Whitespace THEN TrimEnd(SubSeq(s, 1, Len(s) - 1)) ELSE s

RECURSIVE TrimStart(_)
TrimStart(s) == IF s # <<>> /\ s[1] \in Whitespace THEN TrimStart(Tail(s)) ELSE s

Trim(s) == TrimStart(TrimEnd(s))

StartsWith(s, prefix) == Len(s) >= Len(prefix) /\ SubSeq(s, 1, Len(prefix)) = prefix

RECURSIVE SplitLines(_)
\* String.prototype.split('\n'): always at least one line
SplitLines(text) ==
  LET breaks == {i \in 1..Len(text) : text[i] = NL} IN
  IF breaks = {} THEN <<text>>
  ELSE LET b == CHOOSE i \in breaks : \A j \in breaks : i <= j
       IN <<SubSeq(text, 1, b - 1)>> \o SplitLines(SubSeq(text, b + 1, Len(text)))

RECURSIVE JoinLines(_)
\* Array.prototype.join('\n')
JoinLines(lines) ==
  IF lines = <<>> THEN <<>>
  ELSE IF Len(lines) = 1 THEN lines[1]
  ELSE lines[1] \o <<NL>> \o JoinLines(Tail(lines))

\* Array.prototype.slice(from, to) on a 0-based array of lines
SliceLines(lines, from, to) == Slice(lines, from, to)

LowerCase(c) ==
  CASE c = "A" -> "a" [] c = "B" -> "b" [] c = "C" -> "c" [] c = "X" -> "x" [] OTHER -> c

RECURSIVE Slug(_)
\* text.replace(/\s+/g, '-').toLowerCase()
Slug(text) ==
  IF text = <<>> THEN <<>>
  ELSE IF text[1] \in Whitespace
       THEN <<"-">> \o Slug(TrimStart(text))
       ELSE <<LowerCase(text[1])>> \o Slug(Tail(text))

RECURSIVE LeadingHashes(_)
LeadingHashes(s) == IF s # <<>> /\ s[1] = "#" THEN 1 + LeadingHashes(Tail(s)) ELSE 0

\* a plausible slip: the pattern takes one to four number signs
HeadingMatchAtFour(line, k) ==
  IF k >= 1 /\ k <= 4 /\ Len(line) >= k + 2 /\ line[k + 1] \in Whitespace
  THEN <<[level |-> k, rest |-> SubSeq(line, k + 2, Len(line))]>>
  ELSE <<>>

\* the match of a line that begins with k number signs
HeadingMatchAt(line, k) ==
  IF k >= 1 /\ k <= 3 /\ Len(line) >= k + 2 /\ line[k + 1] \in Whitespace
  THEN <<[level |-> k, rest |-> SubSeq(line, k + 2, Len(line))]>>
  ELSE <<>>

\* /^(#{1,3})\s+(.+)$/.exec(line): absent, or the level and the raw second group
HeadingMatch(line) == HeadingMatchAt(line, LeadingHashes(line))

Anchor(level, text) == <<"h", ToString(level), "-">> \o Slug(text)

\* the character U+0060 (the lexer of the tools rejects it inside a string)
Backtick == "BACKTICK"
Fence == <<Backtick, Backtick, Backtick>>

\* a plausible slip: a fence line always opens a fence, so a closing line never closes
ToggleFenceStuck(inFence) == TRUE

\* inFence = !inFence
ToggleFence(inFence) == ~inFence

\* toc.push({ level, text, anchor, lineIndex }) for a matched heading with trimmed text
PushTocItem(prev, level, text, lineIndex) ==
  [toc |-> Append(prev.toc, [level |-> level, text |-> text, anchor |-> Anchor(level, text),
                             lineIndex |-> lineIndex]),
   inFence |-> prev.inFence]

\* the heading branch of the loop body of computedToc
TocHeading(prev, match, lineIndex) ==
  IF match = <<>> THEN prev
  ELSE IF Trim(match[1].rest) = <<>> THEN prev
  ELSE PushTocItem(prev, match[1].level, Trim(match[1].rest), lineIndex)

\* the loop body of computedToc on one line, already trimmed at its end
TocLine(prev, line, lineIndex) ==
  IF StartsWith(TrimStart(line), Fence)
  THEN [toc |-> prev.toc, inFence |-> ToggleFence(prev.inFence)]
  ELSE IF prev.inFence THEN prev
  ELSE TocHeading(prev, HeadingMatch(TrimStart(line)), lineIndex)

\* the loop of computedToc over the lines
TocScan(lines) ==
  LET F[i \in 0..Len(lines)] ==
        IF i = 0 THEN [toc |-> <<>>, inFence |-> FALSE]
        ELSE TocLine(F[i - 1], TrimEnd(lines[i]), i - 1)
  IN F[Len(lines)].toc

\* computedToc (useMemo): items carry the 0-based index of their line
computedToc(content) ==
  IF content = <<>> THEN <<>> ELSE TocScan(SplitLines(content))

\* toc.push({ level, text, anchor }) of parseTocFromMarkdown
PushParsedItem(prev, level, text) ==
  [toc |-> Append(prev.toc, [level |-> level, text |-> text, anchor |-> Anchor(level, text)]),
   inFence |-> prev.inFence]

\* the heading branch of the loop body of parseTocFromMarkdown
ParsedHeading(prev, match) ==
  IF match = <<>> THEN prev
  ELSE IF Trim(match[1].rest) = <<>> THEN prev
  ELSE PushParsedItem(prev, match[1].level, Trim(match[1].rest))

\* the loop body of parseTocFromMarkdown on trimmedStart
ParsedLine(prev, trimmedStart) ==
  IF StartsWith(trimmedStart, Fence)
  THEN [toc |-> prev.toc, inFence |-> ToggleFence(prev.inFence)]
  ELSE IF prev.inFence THEN prev
  ELSE ParsedHeading(prev, HeadingMatch(trimmedStart))

\* the loop of parseTocFromMarkdown over the lines
ParsedScan(lines) ==
  LET F[i \in 0..Len(lines)] ==
        IF i = 0 THEN [toc |-> <<>>, inFence |-> FALSE]
        ELSE ParsedLine(F[i - 1], TrimStart(TrimEnd(lines[i])))
  IN F[Len(lines)].toc

\* parseTocFromMarkdown: the same scan, items without a line index
parseTocFromMarkdown(markdown) ==
  IF markdown = <<>> THEN <<>> ELSE ParsedScan(SplitLines(markdown))

\* lineStartIndices: a 0-based array with one more element than there are lines
LineStartIndices(lines) ==
  LET F[i \in 0..Len(lines)] == IF i = 0 THEN 0 ELSE F[i - 1] + Len(lines[i]) + 1
  IN F

\* `n || d` for a number n
OrElse(n, d) == IF n = 0 THEN d ELSE n

\* lines.slice(from, to).some(l => l.trim().length > 0)
SomeNonBlank(lines, from, to) ==
  \E i \in 1..Len(SliceLines(lines, from, to)) : Trim(SliceLines(lines, from, to)[i]) # <<>>

RootId == <<"r", "o", "o", "t">>

\* the annotations whose start (0 when there is no range) lies in [from, to)
AnnotationsStartingIn(annotations, from, to) ==
  {i \in 1..Len(annotations) :
     LET start == IF annotations[i].range = NoRange THEN 0 ELSE annotations[i].range[1].start
     IN start >= from /\ start < to}

\* the animations with a numeric range start in [from, to)
AnimationsStartingIn(animations, from, to) ==
  {i \in 1..Len(animations) :
     /\ animations[i].meta.range # NoRange
     /\ animations[i].meta.range[1].start >= from
     /\ animations[i].meta.range[1].start < to}

SectionStats(node, from, to) ==
  [hasAnnotations |-> \E i \in AnnotationsStartingIn(node.annotations, from, to) :
                         node.annotations[i].type # "favorite",
   hasFavorites |-> \E i \in AnnotationsStartingIn(node.annotations, from, to) :
                       node.annotations[i].type = "favorite",
   hasAnimations |-> AnimationsStartingIn(node.animations, from, to) # {}]

\* a plausible slip: an equal-level heading stays on the stack and becomes the parent
ShouldPopStrict(top, item) == top.level > item.level

\* the test of the while loop that pops the stack (besides stack.length > 1)
ShouldPop(top, item) == top.level >= item.level

RECURSIVE PopStack(_, _)
PopStack(stack, item) ==
  IF Len(stack) > 1 /\ ShouldPop(stack[Len(stack)], item)
  THEN PopStack(SubSeq(stack, 1, Len(stack) - 1), item)
  ELSE stack

EdgeId(from, to) == <<"e", "d", "g", "e", "-">> \o from \o <<"-">> \o to

\* the root of the mind-map: the text before the first heading
MindmapRoot(node, lines, firstHeaderLine, rootEndChar) ==
  [id |-> RootId, text |-> node.theme, parentId |-> <<>>, anchor |-> <<>>,
   hasContent |-> SomeNonBlank(lines, 0, firstHeaderLine),
   stats |-> SectionStats(node, 0, rootEndChar)]

\* item.anchor || `node-${index}`
MindmapNodeId(item, index) ==
  IF item.anchor # <<>> THEN item.anchor ELSE <<"n", "o", "d", "e", "-", ToString(index)>>

\* nodes.push, edges.push and stack.push for one heading, the stack already popped
PushHeading(prev, node, lines, item, id, stack, endLine, sectionStartChar, sectionEndChar) ==
  [nodes |-> Append(prev.nodes,
               [id |-> id, text |-> item.text, parentId |-> <<stack[Len(stack)].id>>,
                anchor |-> item.anchor,
                hasContent |-> SomeNonBlank(lines, item.lineIndex + 1, endLine),
                stats |-> SectionStats(node, sectionStartChar, sectionEndChar)]),
   edges |-> Append(prev.edges,
               [id |-> EdgeId(stack[Len(stack)].id, id),
                fromId |-> stack[Len(stack)].id, toId |-> id]),
   stack |-> Append(stack, [id |-> id, level |-> item.level])]

\* the body of toc.forEach for the heading at 0-based index
EachHeading(prev, node, toc, lines, lineStartIndices, currentLength, index, endLine) ==
  PushHeading(prev, node, lines, toc[index + 1], MindmapNodeId(toc[index + 1], index),
              PopStack(prev.stack, toc[index + 1]), endLine,
              lineStartIndices[toc[index + 1].lineIndex],
              OrElse(lineStartIndices[endLine], currentLength))

\* the nodes and edges built from a non-empty toc
MindmapOf(node, toc, lines, lineStartIndices, currentLength, firstHeaderLine) ==
  LET F[i \in 0..Len(toc)] ==
        IF i = 0
        THEN [nodes |-> <<MindmapRoot(node, lines, firstHeaderLine,
                                      OrElse(lineStartIndices[firstHeaderLine], currentLength))>>,
              edges |-> <<>>,
              stack |-> <<[id |-> RootId, level |-> 0]>>]
        ELSE EachHeading(F[i - 1], node, toc, lines, lineStartIndices, currentLength, i - 1,
                         IF i < Len(toc) THEN toc[i + 1].lineIndex ELSE Len(lines))
  IN [nodes |-> F[Len(toc)].nodes, edges |-> F[Len(toc)].edges]

\* the effect on the toc and the lines of the content
MindmapFrom(node, toc, lines, lineStartIndices) ==
  IF Len(toc) = 0 THEN <<>>
  ELSE <<MindmapOf(node, toc, lines, lineStartIndices, lineStartIndices[Len(lines)],
                   toc[1].lineIndex)>>

\* the effect that derives mindmapData from computedToc: absent (null) or {nodes, edges}
mindmapEffect(node) ==
  MindmapFrom(node, computedToc(node.contentMd), SplitLines(node.contentMd),
              LineStartIndices(SplitLines(node.contentMd)))

\* toc.findIndex(t => t.anchor === anchor): 0-based, -1 if none
FindAnchor(toc, anchor) ==
  LET hits == {i \in 1..Len(toc) : toc[i].anchor = anchor}
  IN IF hits = {} THEN -1 ELSE (CHOOSE i \in hits : \A j \in hits : i <= j) - 1

\* the root section: the text before the first heading, under a title made of the theme
RootSection(node, toc, lines, lineStartIndices, firstHeaderLine) ==
  <<[content |-> JoinLines(SliceLines(lines, 0, firstHeaderLine)),
     sectionStartChar |-> 0,
     sectionEndChar |-> OrElse(lineStartIndices[firstHeaderLine], lineStartIndices[Len(lines)]),
     prefix |-> <<"#", " ">> \o node.theme \o <<NL, NL>>]>>

\* the section of the toc item at 0-based itemIndex, up to the line of the next item
ItemSection(toc, lines, lineStartIndices, itemIndex, endLine) ==
  IF itemIndex = -1 THEN <<>>
  ELSE <<[content |-> JoinLines(SliceLines(lines, toc[itemIndex + 1].lineIndex, endLine)),
          sectionStartChar |-> OrElse(lineStartIndices[toc[itemIndex + 1].lineIndex], 0),
          sectionEndChar |-> OrElse(lineStartIndices[endLine], lineStartIndices[Len(lines)]),
          prefix |-> <<>>]>>

\* the line where the section of the item at 0-based itemIndex ends
SectionEndLine(toc, lines, itemIndex) ==
  IF itemIndex + 2 <= Len(toc) THEN toc[itemIndex + 2].lineIndex ELSE Len(lines)

\* the extraction on the toc and the lines of the content
SectionFrom(node, selected, toc, lines, lineStartIndices) ==
  IF selected = <<>> THEN <<>>
  ELSE IF selected[1] = RootId
  THEN RootSection(node, toc, lines, lineStartIndices,
                   IF Len(toc) > 0 THEN toc[1].lineIndex ELSE Len(lines))
  ELSE ItemSection(toc, lines, lineStartIndices, FindAnchor(toc, selected[1]),
                   SectionEndLine(toc, lines, FindAnchor(toc, selected[1])))

\* the section chosen by selectedMindmapNode: absent, or its text, char bounds and prefix
ExtractSection(node, selected) ==
  SectionFrom(node, selected, computedToc(node.contentMd), SplitLines(node.contentMd),
              LineStartIndices(SplitLines(node.contentMd)))

\* the remapped range of an entity kept for the extracted view
RemapRange(range, sectionStartChar, offset) ==
  [start |-> range.start - sectionStartChar + offset,
   end |-> range.end - sectionStartChar + offset]

\* adjustedAnnotations: filter on the stored start, then shift
AdjustAnnotations(annotations, sectionStartChar, sectionEndChar, offset) ==
  LET keep(a) == /\ a.range # NoRange
                 /\ a.range[1].start >= sectionStartChar
                 /\ a.range[1].start < sectionEndChar
      kept == SelectSeq(annotations, keep)
  IN [i \in 1..Len(kept) |->
        [kept[i] EXCEPT !.range = <<RemapRange(kept[i].range[1], sectionStartChar, offset)>>]]

\* adjustedAnimations: the same on meta.range
AdjustAnimations(animations, sectionStartChar, sectionEndChar, offset) ==
  LET keep(a) == /\ a.meta.range # NoRange
                 /\ a.meta.range[1].start >= sectionStartChar
                 /\ a.meta.range[1].start < sectionEndChar
      kept == SelectSeq(animations, keep)
  IN [i \in 1..Len(kept) |->
        [kept[i] EXCEPT !.meta.range =
           <<RemapRange(kept[i].meta.range[1], sectionStartChar, offset)>>]]

\* what is handed to processContent for the extracted view, and its markup
RenderAdjusted(markdown, adjustedAnnotations, adjustedAnimations) ==
  [markdown |-> markdown,
   annotations |-> adjustedAnnotations,
   animations |-> adjustedAnimations,
   html |-> processContent(markdown, adjustedAnnotations, adjustedAnimations)]

\* the extracted view of a section: offset is the length of the prefix
RenderSection(node, sec, offset) ==
  RenderAdjusted(sec.prefix \o sec.content,
    AdjustAnnotations(node.annotations, sec.sectionStartChar, sec.sectionEndChar, offset),
    AdjustAnimations(node.animations, sec.sectionStartChar, sec.sectionEndChar, offset))

\* the rendering of an extracted section, absent (null) when there is none
RenderExtracted(node, section) ==
  IF section = <<>> THEN <<>>
  ELSE <<RenderSection(node, section[1], Len(section[1].prefix))>>

\* renderMindmapContent: absent (null), or what is handed to processContent and its markup
renderMindmapContent(node, selected) == RenderExtracted(node, ExtractSection(node, selected))

\* ---- inputs of the detail-view specification ----
Heading(k, c) == [i \in 1..k |-> "#"] \o <<" ", c>>

\* lines of the documents whose headings are projected
TocLines ==
  {Heading(1, "a"), Heading(2, "b"), Heading(3, "c"), Heading(4, "d"), Heading(5, "d"),
   <<" ">> \o Heading(1, "A"), <<"#", "a">>, <<"x">>, <<>>, Fence, Fence \o <<"x">>}

\* lines of the documents that carry an annotation or an animation
SectionLines == {Heading(1, "a"), Heading(2, "b"), <<"x">>, <<>>}

Documents(lineSet, n) == {JoinLines(ls) : ls \in SeqsUpTo(lineSet, n)}

ValidRangesOf(content) ==
  {Range(p[1], p[2]) : p \in {q \in (0..Len(content)) \X (0..Len(content)) : q[1] < q[2]}}

\* one stored entity: a comment, a favorite or a completed animation
EntityChoices(content) ==
  {[annotations |-> <<[id |-> 1, range |-> r, text |-> <<"n">>, type |-> t]>>,
    animations |-> <<>>] : r \in ValidRangesOf(content), t \in {"comment", "favorite"}}
  \cup
  {[annotations |-> <<>>,
    animations |-> <<[id |-> 1, meta |-> [range |-> r, note |-> <<"n">>,
                                          status |-> "completed"]]>>] :
     r \in ValidRangesOf(content)}

Theme == <<"T">>

\* a node as the store holds it after a generation: toc is parseTocFromMarkdown(contentMd)
ViewNode(content, annotations, animations) ==
  [theme |-> Theme, contentMd |-> content, toc |-> parseTocFromMarkdown(content),
   annotations |-> annotations, animations |-> animations]

OverlayIdle ==
  /\ pcContent = <<>>
  /\ pcAnnotations = <<>>
  /\ pcAnimations = <<>>
  /\ pcResult = <<>>
  /\ pcRendered = FALSE

\* the detail view is opened on a node: no mind-map yet, nothing selected, effect scheduled
ViewInit ==
  /\ TreeIdle
  /\ SyncIdle
  /\ AnimationIdle
  /\ OverlayIdle
  /\ GraphIdle
  /\ \/ \E content \in Documents(TocLines, MaxLines) :
          dvNode = ViewNode(content, <<>>, <<>>)
     \/ \E content \in Documents(SectionLines, MaxSectionLines) :
          \E ents \in EntityChoices(content) :
            dvNode = ViewNode(content, ents.annotations, ents.animations)
  /\ mindmapData = <<>>
  /\ selectedMindmapNode = <<>>
  /\ sidePanel = <<>>
  /\ effectPending = TRUE

\* useEffect(..., [computedToc, node.theme, node.contentMd, node.annotations, node.animations])
MindmapEffect ==
  /\ effectPending
  /\ mindmapData' = mindmapEffect(dvNode)
  /\ effectPending' = FALSE
  /\ sidePanel' = renderMindmapContent(dvNode, selectedMindmapNode)
  /\ UNCHANGED <<dvNode, selectedMindmapNode>>
  /\ UNCHANGED <<syncVars, animationRequests, treeVars, projectVars, overlayVars, storeVars, generationVars>>

\* a click on a mind-map node that has content: handleNodeClick toggles the selection,
\* and the side panel is rendered again
HandleNodeClick ==
  /\ mindmapData # <<>>
  /\ \E i \in 1..Len(mindmapData[1].nodes) :
       /\ mindmapData[1].nodes[i].hasContent
       /\ selectedMindmapNode' =
            IF selectedMindmapNode = <<mindmapData[1].nodes[i].id>> THEN <<>>
            ELSE <<mindmapData[1].nodes[i].id>>
  /\ sidePanel' = renderMindmapContent(dvNode, selectedMindmapNode')
  /\ UNCHANGED <<dvNode, mindmapData, effectPending>>
  /\ UNCHANGED <<syncVars, animationRequests, treeVars, projectVars, overlayVars, storeVars, generationVars>>

ViewNext == MindmapEffect \/ HandleNodeClick

SpecView == ViewInit /\ [][ViewNext]_vars

\* ---- properties of the projections ----
dvToc == computedToc(dvNode.contentMd)
dvLines == SplitLines(dvNode.contentMd)

\* the nearest preceding heading with a strictly smaller level, or the root
ExpectedParentId(toc, i) ==
  LET shallower == {j \in 1..(i - 1) : toc[j].level < toc[i].level}
  IN IF shallower = {} THEN RootId
     ELSE toc[CHOOSE j \in shallower : \A k \in shallower : k <= j].anchor

HierarchyOf(toc, mm) ==
  /\ mm # <<>>
  /\ Len(mm[1].nodes) = Len(toc) + 1
  /\ Len(mm[1].edges) = Len(toc)
  /\ mm[1].nodes[1].id = RootId
  /\ \A n \in 1..Len(mm[1].nodes) : (mm[1].nodes[n].parentId = <<>>) <=> (n = 1)
  /\ \A i \in 1..Len(toc) :
       /\ mm[1].nodes[i + 1].id = toc[i].anchor
       /\ mm[1].nodes[i + 1].text = toc[i].text
       /\ mm[1].nodes[i + 1].parentId = <<ExpectedParentId(toc, i)>>
       /\ mm[1].edges[i].fromId = ExpectedParentId(toc, i)
       /\ mm[1].edges[i].toId = toc[i].anchor

\* C5 as stated: whatever headings were detected, once the effect has run the mind-map has
\* one root without parent, one node and one edge per heading, and every heading hangs
\* under the nearest preceding heading of strictly smaller level, else under the root.
HeadingHierarchyAnyDocument == ~effectPending => HierarchyOf(dvToc, mindmapData)

\* C5 (amended): the same for every document in which at least one heading is detected;
\* with no heading the effect sets mindmapData to null and there is no root at all.
HeadingHierarchy == (~effectPending /\ Len(dvToc) > 0) => HierarchyOf(dvToc, mindmapData)

\* C5 witness: two equal-level siblings under a heading, and a heading that pops two levels
HeadingHierarchyWitness ==
  /\ ~effectPending
  /\ Len(dvToc) >= 4
  /\ \E i, j \in 1..Len(dvToc) :
       /\ i < j
       /\ dvToc[i].level = dvToc[j].level
       /\ ExpectedParentId(dvToc, i) # RootId
       /\ mindmapData[1].nodes[i + 1].parentId = mindmapData[1].nodes[j + 1].parentId
  /\ \E i \in 2..Len(dvToc) : dvToc[i].level + 2 = dvToc[i - 1].level

\* a line whose trimmed form starts with three backticks
IsFenceDelimiter(line) == StartsWith(Trim(line), Fence)
\* line i (1-based) lies after an odd number of fence delimiter lines
InsideFence(lines, i) ==
  Cardinality({j \in 1..(i - 1) : IsFenceDelimiter(lines[j])}) % 2 = 1
\* a line the heading pattern of the parsers matches
HeadingShaped(line) == HeadingMatch(Trim(line)) # <<>>

\* C6 (fence-awareness): the TOC of computedToc holds exactly the heading-shaped lines that
\* are no fence delimiter and lie outside every fenced block (a block runs from its
\* opening delimiter to the next delimiter or the end of the document), each once and in
\* order, and parseTocFromMarkdown yields the same items.
FenceAwareness ==
  /\ \A i \in 1..Len(dvLines) :
       (\E t \in 1..Len(dvToc) : dvToc[t].lineIndex = i - 1)
         <=> (/\ dvNode.contentMd # <<>>
              /\ HeadingShaped(dvLines[i])
              /\ ~IsFenceDelimiter(dvLines[i])
              /\ ~InsideFence(dvLines, i))
  /\ \A t \in 1..Len(dvToc) : dvToc[t].lineIndex \in 0..(Len(dvLines) - 1)
  /\ \A t, u \in 1..Len(dvToc) : t < u => dvToc[t].lineIndex < dvToc[u].lineIndex
  /\ Len(dvNode.toc) = Len(dvToc)
  /\ \A t \in 1..Len(dvToc) :
       /\ dvNode.toc[t].level = dvToc[t].level
       /\ dvNode.toc[t].text = dvToc[t].text
       /\ dvNode.toc[t].anchor = dvToc[t].anchor

\* C6 witness: a heading-shaped line inside a closed fence, and a heading after the fence
FenceAwarenessWitness ==
  /\ ~effectPending
  /\ \E i, j, k \in 1..Len(dvLines) :
       /\ i < j /\ j < k
       /\ IsFenceDelimiter(dvLines[j])
       /\ HeadingShaped(dvLines[i]) /\ InsideFence(dvLines, i)
       /\ HeadingShaped(dvLines[k]) /\ ~InsideFence(dvLines, k)
       /\ \E t \in 1..Len(dvToc) : dvToc[t].lineIndex = k - 1
       /\ ~\E t \in 1..Len(dvToc) : dvToc[t].lineIndex = i - 1

\* the line consists of k number signs, then whitespace, then text that is not blank
HashLine(line, k) ==
  /\ LeadingHashes(line) = k
  /\ Len(line) > k
  /\ line[k + 1] \in Whitespace
  /\ Trim(SubSeq(line, k + 1, Len(line))) # <<>>

\* line i (1-based) is no fence delimiter and lies outside every fence
OutsideFences(lines, i) == ~IsFenceDelimiter(lines[i]) /\ ~InsideFence(lines, i)

\* the items of the TOC of computedToc made for line i (1-based)
ItemsOfLine(toc, i) == {t \in 1..Len(toc) : toc[t].lineIndex = i - 1}

\* both parsers give a TOC in which the lines of exactly the levels 1..top with the shape
\* of HashLine, outside fences, have an item of their level, and the lines with more
\* number signs have none
LevelsUpTo(top) ==
  /\ \A i \in 1..Len(dvLines) : \A k \in 1..Len(dvLines[i]) :
       (dvNode.contentMd # <<>> /\ HashLine(dvLines[i], k) /\ OutsideFences(dvLines, i)) =>
         IF k <= top
         THEN \E t \in ItemsOfLine(dvToc, i) :
                /\ ItemsOfLine(dvToc, i) = {t}
                /\ dvToc[t].level = k
                /\ t <= Len(dvNode.toc)
                /\ dvNode.toc[t].level = k
         ELSE ItemsOfLine(dvToc, i) = {}
  /\ Len(dvNode.toc) = Len(dvToc)

dvSection == ExtractSection(dvNode, selectedMindmapNode)
RangeWithin(r, from, to) == r.start >= from /\ r.end <= to /\ r.start < r.end

RemapExact(r, sec, markdown) ==
  LET offset == Len(sec.prefix)
      start == r.start - sec.sectionStartChar + offset
      end == r.end - sec.sectionStartChar + offset
  IN /\ end <= Len(markdown)
     /\ SubSeq(markdown, start + 1, end) = SubSeq(dvNode.contentMd, r.start + 1, r.end)

\* C7 as stated: when a section [S, E) is shown with a prefix of length P, every annotation
\* and animation whose stored range lies within [S, E) is handed to the overlay at
\* {start - S + P, end - S + P}, and the extracted view has at that range exactly the
\* characters the full content has at the stored range.
SectionRemap ==
  (sidePanel # <<>> /\ dvSection # <<>>) =>
    LET sec == dvSection[1]
        offset == Len(sec.prefix)
    IN /\ \A i \in 1..Len(dvNode.annotations) :
            (/\ dvNode.annotations[i].range # NoRange
             /\ RangeWithin(dvNode.annotations[i].range[1],
                            sec.sectionStartChar, sec.sectionEndChar)) =>
              /\ \E k \in 1..Len(sidePanel[1].annotations) :
                   /\ sidePanel[1].annotations[k].id = dvNode.annotations[i].id
                   /\ sidePanel[1].annotations[k].range =
                        <<[start |-> dvNode.annotations[i].range[1].start
                                       - sec.sectionStartChar + offset,
                           end |-> dvNode.annotations[i].range[1].end
                                     - sec.sectionStartChar + offset]>>
              /\ RemapExact(dvNode.annotations[i].range[1], sec, sidePanel[1].markdown)
       /\ \A i \in 1..Len(dvNode.animations) :
            (/\ dvNode.animations[i].meta.range # NoRange
             /\ RangeWithin(dvNode.animations[i].meta.range[1],
                            sec.sectionStartChar, sec.sectionEndChar)) =>
              /\ \E k \in 1..Len(sidePanel[1].animations) :
                   /\ sidePanel[1].animations[k].id = dvNode.animations[i].id
                   /\ sidePanel[1].animations[k].meta.range =
                        <<[start |-> dvNode.animations[i].meta.range[1].start
                                       - sec.sectionStartChar + offset,
                           end |-> dvNode.animations[i].meta.range[1].end
                                     - sec.sectionStartChar + offset]>>
              /\ RemapExact(dvNode.animations[i].meta.range[1], sec, sidePanel[1].markdown)

RECURSIVE CharOffset(_, _)
\* the offset in the text of the first character of its line k (0-based)
CharOffset(lines, k) ==
  IF k = 0 THEN 0 ELSE CharOffset(lines, k - 1) + Len(lines[k]) + 1

\* the char bounds [from, to) of the section of entry n of the mind-map: entry 1 is the
\* root, whose section is the text before the first heading; entry n + 1 is heading n,
\* whose section runs from its line to the line of the next heading or the end of the text
SectionBounds(content, lines, toc, n) ==
  IF n = 1 THEN [from |-> 0, to |-> CharOffset(lines, toc[1].lineIndex)]
  ELSE [from |-> CharOffset(lines, toc[n - 1].lineIndex),
        to |-> IF n - 1 < Len(toc) THEN CharOffset(lines, toc[n].lineIndex) ELSE Len(content)]

StartsIn(range, bounds) ==
  /\ range # NoRange
  /\ range[1].start >= bounds.from
  /\ range[1].start < bounds.to

\* C18 as stated: once the effect has built the mind-map, an entry is flagged as having
\* annotations, favorites or animations if and only if an annotation that is no favorite,
\* a favorite or an animation has the start of its range inside the section of the entry.
SectionFlags ==
  (~effectPending /\ mindmapData # <<>>) =>
    \A n \in 1..Len(mindmapData[1].nodes) :
      /\ mindmapData[1].nodes[n].stats.hasAnnotations <=>
           \E i \in 1..Len(dvNode.annotations) :
             /\ dvNode.annotations[i].type # "favorite"
             /\ StartsIn(dvNode.annotations[i].range,
                         SectionBounds(dvNode.contentMd, dvLines, dvToc, n))
      /\ mindmapData[1].nodes[n].stats.hasFavorites <=>
           \E i \in 1..Len(dvNode.annotations) :
             /\ dvNode.annotations[i].type = "favorite"
             /\ StartsIn(dvNode.annotations[i].range,
                         SectionBounds(dvNode.contentMd, dvLines, dvToc, n))
      /\ mindmapData[1].nodes[n].stats.hasAnimations <=>
           \E i \in 1..Len(dvNode.animations) :
             StartsIn(dvNode.animations[i].meta.range,
                      SectionBounds(dvNode.contentMd, dvLines, dvToc, n))

\* ------------------------------------------------------------------------
\* GraphStore: the operations of appStore.ts on {nodes, edges, currentProject}
\* ------------------------------------------------------------------------
\* statuses of a node (types: NodeStatus)
NodeStatus == {"idle", "generating", "completed", "error"}

\* the state the operations work on; currentProject is absent (null) or holds its own
\* copies of the lists (its id, name, settings and metadata are left out)
Store == [nodes |-> nodes, edges |-> edges, currentProject |-> currentProject]

\* set(...) of an operation: the three fields of the new state are stored
SetStore(s) ==
  /\ nodes' = s.nodes
  /\ edges' = s.edges
  /\ currentProject' = s.currentProject

\* { ...record, ...updates }
Merge(record, updates) ==
  [f \in DOMAIN record |-> IF f \in DOMAIN updates THEN updates[f] ELSE record[f]]

\* list.map(x => x.id === id ? { ...x, ...updates } : x)
MapById(list, id, updates) ==
  [i \in 1..Len(list) |-> IF list[i].id = id THEN Merge(list[i], updates) ELSE list[i]]

\* nodes.filter(node => node.id !== nodeId)
NodesWithout(list, nodeId) ==
  LET keep(node) == node.id # nodeId IN SelectSeq(list, keep)

\* edges.filter(edge => edge.fromNodeId !== nodeId && edge.toNodeId !== nodeId)
EdgesNotTouching(list, nodeId) ==
  LET keep(edge) == edge.fromNodeId # nodeId /\ edge.toNodeId # nodeId IN SelectSeq(list, keep)

\* edges.filter(edge => edge.id !== edgeId)
EdgesWithout(list, edgeId) ==
  LET keep(edge) == edge.id # edgeId IN SelectSeq(list, keep)

\* state.currentProject ? { ...state.currentProject, nodes, edges } : null
Project(nodeList, edgeList) == <<[nodes |-> nodeList, edges |-> edgeList]>>

addNode(st, node) ==
  [nodes |-> Append(st.nodes, node),
   edges |-> st.edges,
   currentProject |->
     IF st.currentProject # <<>>
     THEN Project(Append(st.currentProject[1].nodes, node), st.currentProject[1].edges)
     ELSE <<>>]

updateNode(st, nodeId, updates) ==
  [nodes |-> MapById(st.nodes, nodeId, updates),
   edges |-> st.edges,
   currentProject |->
     IF st.currentProject # <<>>
     THEN Project(MapById(st.currentProject[1].nodes, nodeId, updates),
                  st.currentProject[1].edges)
     ELSE <<>>]

\* a plausible slip: only the edges that leave the node are removed
deleteNodeOutgoingOnly(st, nodeId) ==
  LET keep(edge) == edge.fromNodeId # nodeId IN
  [nodes |-> NodesWithout(st.nodes, nodeId),
   edges |-> SelectSeq(st.edges, keep),
   currentProject |->
     IF st.currentProject # <<>>
     THEN Project(NodesWithout(st.currentProject[1].nodes, nodeId),
                  SelectSeq(st.currentProject[1].edges, keep))
     ELSE <<>>]

deleteNode(st, nodeId) ==
  [nodes |-> NodesWithout(st.nodes, nodeId),
   edges |-> EdgesNotTouching(st.edges, nodeId),
   currentProject |->
     IF st.currentProject # <<>>
     THEN Project(NodesWithout(st.currentProject[1].nodes, nodeId),
                  EdgesNotTouching(st.currentProject[1].edges, nodeId))
     ELSE <<>>]

\* state.edges.findIndex(e => e.id === edge.id) !== -1
HasEdge(list, edgeId) == \E i \in 1..Len(list) : list[i].id = edgeId

\* a plausible slip: the edge is appended without looking for its id
addEdgeUnchecked(st, edge) ==
  [nodes |-> st.nodes,
   edges |-> Append(st.edges, edge),
   currentProject |->
     IF st.currentProject # <<>>
     THEN Project(st.currentProject[1].nodes, Append(st.currentProject[1].edges, edge))
     ELSE <<>>]

addEdge(st, edge) ==
  IF HasEdge(st.edges, edge.id) THEN st
  ELSE [nodes |-> st.nodes,
        edges |-> Append(st.edges, edge),
        currentProject |->
          IF st.currentProject # <<>>
          THEN Project(st.currentProject[1].nodes, Append(st.currentProject[1].edges, edge))
          ELSE <<>>]

updateEdge(st, edgeId, updates) ==
  [nodes |-> st.nodes,
   edges |-> MapById(st.edges, edgeId, updates),
   currentProject |->
     IF st.currentProject # <<>>
     THEN Project(st.currentProject[1].nodes,
                  MapById(st.currentProject[1].edges, edgeId, updates))
     ELSE <<>>]

deleteEdge(st, edgeId) ==
  [nodes |-> st.nodes,
   edges |-> EdgesWithout(st.edges, edgeId),
   currentProject |->
     IF st.currentProject # <<>>
     THEN Project(st.currentProject[1].nodes,
                  EdgesWithout(st.currentProject[1].edges, edgeId))
     ELSE <<>>]

\* createProject: the new project and the lists of the store start empty
createProject(st) == [nodes |-> <<>>, edges |-> <<>>, currentProject |-> Project(<<>>, <<>>)]

\* ---- records of the graph ----
\* a node with empty content and no annotation, as every call site builds it (position,
\* metadata, animations and favorites are left out)
NewNode(id, parentId, status, summary) ==
  [id |-> id, parentId |-> parentId, status |-> status, summary |-> summary,
   contentMd |-> <<>>, toc |-> <<>>, annotations |-> <<>>]

NewEdge(id, fromNodeId, toNodeId, meta) ==
  [id |-> id, fromNodeId |-> fromNodeId, toNodeId |-> toNodeId,
   fromAnchor |-> "bottom", toAnchor |-> "top", meta |-> meta]

\* what apiClient.generateNode resolves with
GenerateResults == {[summary |-> <<"s">>, contentMd |-> <<"#", " ", "a">>]}

\* what apiClient.generateNode rejects with: the message of the error
ErrorMessages == {<<"m">>}

\* the update applied when a generation resolves
CompletedUpdate(result) ==
  [summary |-> result.summary, contentMd |-> result.contentMd,
   toc |-> parseTocFromMarkdown(result.contentMd), status |-> "completed"]

\* a plausible slip: the catch block leaves the status as it is
ErrorUpdateStuck == [status |-> "generating"]

\* the update applied when a generation rejects (idea, expansion, regeneration)
ErrorUpdate == [status |-> "error"]

\* the summary written by NodeCreateDialog on failure: a fixed prefix, then the message
FailedSummary(message) == <<"F", ":">> \o message

\* the update applied when the generation of NodeCreateDialog rejects
CreateErrorUpdate(message) == [status |-> "error", summary |-> FailedSummary(message)]

\* the update applied by handleRegenerateClick before the request
RegeneratingUpdate ==
  [status |-> "generating", summary |-> <<>>, contentMd |-> <<>>, toc |-> <<>>]

\* ---- the store driven through its operations ----
StoreIds == 1..MaxStoreIds
Anchors == {"top", "bottom"}

NodeInputs == {NewNode(id, <<>>, "idle", <<>>) : id \in StoreIds}
NodeUpdates == {ErrorUpdate} \cup {CompletedUpdate(result) : result \in GenerateResults}
EdgeInputs == {NewEdge(id, a, b, "") : id \in StoreIds, a \in StoreIds, b \in StoreIds}
EdgeUpdates ==
  {[fromNodeId |-> a, toNodeId |-> b, fromAnchor |-> h[1], toAnchor |-> h[2]] :
     a \in StoreIds, b \in StoreIds, h \in {<<"bottom", "top">>, <<"top", "bottom">>}}

NodeHits(id) == Cardinality({i \in 1..Len(nodes) : nodes[i].id = id})
TouchingEdges(id) ==
  Cardinality({i \in 1..Len(edges) : edges[i].fromNodeId = id \/ edges[i].toNodeId = id})
EdgeHits(id) == Cardinality({i \in 1..Len(edges) : edges[i].id = id})

\* the store after construction
StoreInit ==
  /\ TreeIdle
  /\ SyncIdle
  /\ AnimationIdle
  /\ OverlayIdle
  /\ ViewIdle
  /\ GenerationIdle
  /\ ProjectIdle
  /\ EmptyStore
  /\ storeOp = NoCall

AddNode ==
  /\ Len(nodes) < MaxStoreLen
  /\ \E node \in NodeInputs :
       /\ SetStore(addNode(Store, node))
       /\ storeOp' = Call("addNode", node.id, <<>>, NodeHits(node.id), 0)
  /\ UNCHANGED <<syncVars, animationRequests, treeVars, projectVars, overlayVars, viewVars, generationVars>>

UpdateNode ==
  /\ \E nodeId \in StoreIds : \E updates \in NodeUpdates :
       /\ SetStore(updateNode(Store, nodeId, updates))
       /\ storeOp' = Call("updateNode", nodeId, <<>>, NodeHits(nodeId), 0)
  /\ UNCHANGED <<syncVars, animationRequests, treeVars, projectVars, overlayVars, viewVars, generationVars>>

DeleteNode ==
  /\ \E nodeId \in StoreIds :
       /\ SetStore(deleteNode(Store, nodeId))
       /\ storeOp' = Call("deleteNode", nodeId, <<>>, NodeHits(nodeId), TouchingEdges(nodeId))
  /\ UNCHANGED <<syncVars, animationRequests, treeVars, projectVars, overlayVars, viewVars, generationVars>>

AddEdge ==
  /\ Len(edges) < MaxStoreLen
  /\ \E edge \in EdgeInputs :
       /\ SetStore(addEdge(Store, edge))
       /\ storeOp' = Call("addEdge", edge.id, <<edge>>, 0, EdgeHits(edge.id))
  /\ UNCHANGED <<syncVars, animationRequests, treeVars, projectVars, overlayVars, viewVars, generationVars>>

UpdateEdge ==
  /\ \E edgeId \in StoreIds : \E updates \in EdgeUpdates :
       /\ SetStore(updateEdge(Store, edgeId, updates))
       /\ storeOp' = Call("updateEdge", edgeId, <<>>, 0, EdgeHits(edgeId))
  /\ UNCHANGED <<syncVars, animationRequests, treeVars, projectVars, overlayVars, viewVars, generationVars>>

DeleteEdge ==
  /\ \E edgeId \in StoreIds :
       /\ SetStore(deleteEdge(Store, edgeId))
       /\ storeOp' = Call("deleteEdge", edgeId, <<>>, 0, EdgeHits(edgeId))
  /\ UNCHANGED <<syncVars, animationRequests, treeVars, projectVars, overlayVars, viewVars, generationVars>>

CreateProject ==
  /\ currentProject = <<>>
  /\ SetStore(createProject(Store))
  /\ storeOp' = Call("createProject", 0, <<>>, 0, 0)
  /\ UNCHANGED <<syncVars, animationRequests, treeVars, projectVars, overlayVars, viewVars, generationVars>>

StoreNext ==
  \/ AddNode
  \/ UpdateNode
  \/ DeleteNode
  \/ AddEdge
  \/ UpdateEdge
  \/ DeleteEdge
  \/ CreateProject

SpecStore == StoreInit /\ [][StoreNext]_vars

\* ---- properties of the store ----
\* the elements of a list that do not carry (nodes) or touch (edges) an id, in order
Others(list, Hit(_)) == LET keep(x) == ~Hit(x) IN SelectSeq(list, keep)

\* C3: a call deleteNode(id) leaves in the store, and in the copy of the current project,
\* exactly the nodes whose id is not id and exactly the edges with neither end at id, each
\* with the field values and in the order it had before the call.
DeleteNodeCascade ==
  [][storeOp'.op = "deleteNode" =>
       LET IsNode(n) == n.id = storeOp'.id
           Touches(e) == e.fromNodeId = storeOp'.id \/ e.toNodeId = storeOp'.id
       IN /\ nodes' = Others(nodes, IsNode)
          /\ edges' = Others(edges, Touches)
          /\ \A i \in 1..Len(nodes') : ~IsNode(nodes'[i])
          /\ \A i \in 1..Len(edges') : ~Touches(edges'[i])
          /\ (currentProject = <<>>) = (currentProject' = <<>>)
          /\ currentProject # <<>> =>
               /\ currentProject'[1].nodes = Others(currentProject[1].nodes, IsNode)
               /\ currentProject'[1].edges = Others(currentProject[1].edges, Touches)]_vars

\* deleteNode of a project's store removed a node and at least one edge that touched it,
\* and another node and another edge are still there
DeleteNodeCascadeWitness ==
  /\ storeOp.op = "deleteNode"
  /\ storeOp.nodeHits >= 1
  /\ storeOp.edgeHits >= 1
  /\ Len(nodes) >= 1
  /\ Len(edges) >= 1
  /\ currentProject # <<>>

\* C4: a call addEdge(edge) whose id is already the id of an edge of the store leaves
\* nodes, edges and the current project as they were; and at every moment no two edges of
\* the store have the same id.
AddEdgeIdempotent ==
  /\ [][(storeOp'.op = "addEdge" /\ HasEdge(edges, storeOp'.id)) =>
          /\ edges' = edges
          /\ nodes' = nodes
          /\ currentProject' = currentProject]_vars
  /\ [](\A i \in 1..Len(edges) : \A j \in 1..Len(edges) : edges[i].id = edges[j].id => i = j)

\* addEdge was called with the id of a stored edge and with other endpoints: the stored
\* edge is not the one the call was given
AddEdgeIdempotentWitness ==
  /\ storeOp.op = "addEdge"
  /\ storeOp.edgeHits = 1
  /\ \E i \in 1..Len(edges) :
       /\ edges[i].id = storeOp.id
       /\ edges[i] # storeOp.arg[1]
       /\ edges[i].fromNodeId # storeOp.arg[1].fromNodeId

\* ------------------------------------------------------------------------
\* The canvas and the generation call sites, on top of the store
\* ------------------------------------------------------------------------
\* nodes.find(n => n.id === id) finds something
HasNode(list, id) == \E i \in 1..Len(list) : list[i].id = id

\* the first node with the id
NodeById(list, id) ==
  list[CHOOSE i \in 1..Len(list) : list[i].id = id /\ \A j \in 1..(i - 1) : list[j].id # id]

\* the generated fields of a node
ContentOf(node) == [summary |-> node.summary, contentMd |-> node.contentMd, toc |-> node.toc]

\* a pending apiClient.generateNode(node, ...): the node it is for, the call site, and the
\* content the node had when the call was made; slot tells apart the calls for one node
Request(node, kind, before, slot) ==
  [node |-> node, kind |-> kind, before |-> before, slot |-> slot]

RequestsFor(node) == {r \in requests : r.node = node}

FreeSlot(node) ==
  CHOOSE k \in 0..MaxInFlight : \A r \in RequestsFor(node) : r.slot # k

\* the request issued for a node of the store, with the content the node has now
Issue(list, node, kind) == Request(node, kind, ContentOf(NodeById(list, node)), FreeSlot(node))

\* the record of the last step when it settled a request
Settled(r, outcome) ==
  <<[node |-> r.node, kind |-> r.kind, before |-> r.before, outcome |-> outcome]>>

\* descriptions typed in NodeCreateDialog (trimmed)
Descriptions == {<<>>, <<"d">>}

\* the child and the edge of one idea of createSelectedNodes, or of an expansion
WithChild(st, childId, parentId, edgeId, meta) ==
  addEdge(addNode(st, NewNode(childId, <<parentId>>, "generating", <<>>)),
          NewEdge(edgeId, parentId, childId, meta))

\* no IdeaDialog covers the page
NoIdeaDialog == IF ideaLoop = <<>> THEN TRUE ELSE ~ideaLoop[1].open

\* the canvas takes clicks: it is rendered (no detail view) and no IdeaDialog covers it
CanvasFree == selectedNode = <<>> /\ NoIdeaDialog

\* the store is empty, nothing was generated (the test data of App.tsx is not loaded:
\* the session is marked as initialised)
AppInit ==
  /\ TreeIdle
  /\ SyncIdle
  /\ AnimationIdle
  /\ OverlayIdle
  /\ ViewIdle
  /\ EmptyStore
  /\ storeOp = NoCall
  /\ GenerationIdle
  /\ ProjectIdle

\* NodeCreateDialog.handleSubmit: the node appears as generating, the dialog closes and
\* generateInBackground makes the request
HandleSubmit ==
  /\ gestures < MaxGestures
  /\ CanvasFree
  /\ nextNodeId <= MaxNodes
  /\ Cardinality(requests) < MaxInFlight
  /\ \E description \in Descriptions :
       /\ SetStore(addNode(Store, NewNode(nextNodeId, <<>>, "generating", description)))
       /\ requests' = requests \cup {Issue(nodes', nextNodeId, "create")}
  /\ nextNodeId' = nextNodeId + 1
  /\ settled' = <<>>
  /\ gestures' = gestures + 1
  /\ UNCHANGED <<syncVars, animationRequests, treeVars, projectVars, overlayVars, viewVars, storeOp, ideaLoop, nextEdgeId>>

\* generateInBackground: the request resolves
CreateResolved ==
  /\ \E r \in requests : \E result \in GenerateResults :
       /\ r.kind = "create"
       /\ SetStore(updateNode(Store, r.node, CompletedUpdate(result)))
       /\ requests' = requests \ {r}
       /\ settled' = Settled(r, "resolved")
  /\ UNCHANGED <<syncVars, animationRequests, treeVars, projectVars, overlayVars, viewVars, storeOp, ideaLoop, nextNodeId, nextEdgeId, gestures>>

\* generateInBackground: the request rejects
CreateRejected ==
  /\ \E r \in requests : \E message \in ErrorMessages :
       /\ r.kind = "create"
       /\ SetStore(updateNode(Store, r.node, CreateErrorUpdate(message)))
       /\ requests' = requests \ {r}
       /\ settled' = Settled(r, "rejected")
  /\ UNCHANGED <<syncVars, animationRequests, treeVars, projectVars, overlayVars, viewVars, storeOp, ideaLoop, nextNodeId, nextEdgeId, gestures>>

\* ReactFlowNode.handleRegenerateClick up to its await: the button of a node on the canvas
HandleRegenerateClick ==
  /\ gestures < MaxGestures
  /\ CanvasFree
  /\ \E i \in 1..Len(nodes) :
       /\ Cardinality(requests) < MaxInFlight
       /\ SetStore(updateNode(Store, nodes[i].id, RegeneratingUpdate))
       /\ requests' = requests \cup {Issue(nodes', nodes[i].id, "regenerate")}
  /\ settled' = <<>>
  /\ gestures' = gestures + 1
  /\ UNCHANGED <<syncVars, animationRequests, treeVars, projectVars, overlayVars, viewVars, storeOp, ideaLoop, nextNodeId, nextEdgeId>>

\* handleRegenerateClick: the request resolves
RegenerateResolved ==
  /\ \E r \in requests : \E result \in GenerateResults :
       /\ r.kind = "regenerate"
       /\ SetStore(updateNode(Store, r.node, CompletedUpdate(result)))
       /\ requests' = requests \ {r}
       /\ settled' = Settled(r, "resolved")
  /\ UNCHANGED <<syncVars, animationRequests, treeVars, projectVars, overlayVars, viewVars, storeOp, ideaLoop, nextNodeId, nextEdgeId, gestures>>

\* handleRegenerateClick: the request rejects
RegenerateRejected ==
  /\ \E r \in requests :
       /\ r.kind = "regenerate"
       /\ SetStore(updateNode(Store, r.node, ErrorUpdate))
       /\ requests' = requests \ {r}
       /\ settled' = Settled(r, "rejected")
  /\ UNCHANGED <<syncVars, animationRequests, treeVars, projectVars, overlayVars, viewVars, storeOp, ideaLoop, nextNodeId, nextEdgeId, gestures>>

\* NodeDetailView.handleToolbarAction('expand'): a generating child under the node shown,
\* an edge to it, and the request in the background
Expand ==
  /\ gestures < MaxGestures
  /\ NoIdeaDialog
  /\ nextNodeId <= MaxNodes
  /\ nextEdgeId <= MaxEdges
  /\ Cardinality(requests) < MaxInFlight
  /\ \E i \in 1..Len(nodes) :
       /\ SetStore(WithChild(Store, nextNodeId, nodes[i].id, nextEdgeId, ""))
       /\ requests' = requests \cup {Issue(nodes', nextNodeId, "expand")}
  /\ nextNodeId' = nextNodeId + 1
  /\ nextEdgeId' = nextEdgeId + 1
  /\ settled' = <<>>
  /\ gestures' = gestures + 1
  /\ UNCHANGED <<syncVars, animationRequests, treeVars, projectVars, overlayVars, viewVars, storeOp, ideaLoop>>

\* expand: the request resolves
ExpandResolved ==
  /\ \E r \in requests : \E result \in GenerateResults :
       /\ r.kind = "expand"
       /\ SetStore(updateNode(Store, r.node, CompletedUpdate(result)))
       /\ requests' = requests \ {r}
       /\ settled' = Settled(r, "resolved")
  /\ UNCHANGED <<syncVars, animationRequests, treeVars, projectVars, overlayVars, viewVars, storeOp, ideaLoop, nextNodeId, nextEdgeId, gestures>>

\* expand: the request rejects
ExpandRejected ==
  /\ \E r \in requests :
       /\ r.kind = "expand"
       /\ SetStore(updateNode(Store, r.node, ErrorUpdate))
       /\ requests' = requests \ {r}
       /\ settled' = Settled(r, "rejected")
  /\ UNCHANGED <<syncVars, animationRequests, treeVars, projectVars, overlayVars, viewVars, storeOp, ideaLoop, nextNodeId, nextEdgeId, gestures>>

\* IdeaDialog.createSelectedNodes up to its first await: count ideas are selected for the
\* node the dialog was opened on; the first child, its edge and its request are made
CreateSelectedNodes ==
  /\ gestures < MaxGestures
  /\ ideaLoop = <<>>
  /\ Cardinality(requests) < MaxInFlight
  /\ \E i \in 1..Len(nodes) : \E count \in 1..MaxIdeas :
       /\ nextNodeId + count - 1 <= MaxNodes
       /\ nextEdgeId + count - 1 <= MaxEdges
       /\ SetStore(WithChild(Store, nextNodeId, nodes[i].id, nextEdgeId, "parent-child"))
       /\ ideaLoop' = <<[parent |-> nodes[i].id, remaining |-> count - 1, open |-> TRUE]>>
       /\ requests' = requests \cup {Issue(nodes', nextNodeId, "idea")}
  /\ nextNodeId' = nextNodeId + 1
  /\ nextEdgeId' = nextEdgeId + 1
  /\ settled' = <<>>
  /\ gestures' = gestures + 1
  /\ UNCHANGED <<syncVars, animationRequests, treeVars, projectVars, overlayVars, viewVars, storeOp>>

\* the rest of one turn of the loop once the child was updated: the next idea gets its
\* child, edge and request, or the dialog closes
NextIdea(st, r, outcome) ==
  /\ settled' = Settled(r, outcome)
  /\ IF ideaLoop[1].remaining > 0
     THEN /\ SetStore(WithChild(st, nextNodeId, ideaLoop[1].parent, nextEdgeId, "parent-child"))
          /\ ideaLoop' = <<[ideaLoop[1] EXCEPT !.remaining = ideaLoop[1].remaining - 1]>>
          /\ requests' = (requests \ {r}) \cup {Issue(nodes', nextNodeId, "idea")}
          /\ nextNodeId' = nextNodeId + 1
          /\ nextEdgeId' = nextEdgeId + 1
     ELSE /\ SetStore(st)
          /\ ideaLoop' = <<>>
          /\ requests' = requests \ {r}
          /\ UNCHANGED <<nextNodeId, nextEdgeId>>

\* createSelectedNodes: the request of the current idea resolves
IdeaResolved ==
  /\ \E r \in requests : \E result \in GenerateResults :
       /\ r.kind = "idea"
       /\ NextIdea(updateNode(Store, r.node, CompletedUpdate(result)), r, "resolved")
  /\ UNCHANGED <<syncVars, animationRequests, treeVars, projectVars, overlayVars, viewVars, storeOp, gestures>>

\* createSelectedNodes: the request of the current idea rejects
IdeaRejected ==
  /\ \E r \in requests :
       /\ r.kind = "idea"
       /\ NextIdea(updateNode(Store, r.node, ErrorUpdate), r, "rejected")
  /\ UNCHANGED <<syncVars, animationRequests, treeVars, projectVars, overlayVars, viewVars, storeOp, gestures>>

\* the cancel button of IdeaDialog, which createSelectedNodes does not disable: the dialog
\* closes and the loop goes on
OnClose ==
  /\ gestures < MaxGestures
  /\ ideaLoop # <<>>
  /\ ideaLoop[1].open
  /\ ideaLoop' = <<[ideaLoop[1] EXCEPT !.open = FALSE]>>
  /\ settled' = <<>>
  /\ gestures' = gestures + 1
  /\ UNCHANGED <<syncVars, animationRequests, treeVars, projectVars, overlayVars, viewVars, storeVars, requests, nextNodeId, nextEdgeId>>

\* ReactFlowCanvas.onConnect: a connection drawn between two nodes of the canvas
OnConnect ==
  /\ gestures < MaxGestures
  /\ CanvasFree
  /\ nextEdgeId <= MaxEdges
  /\ \E i \in 1..Len(nodes) : \E j \in 1..Len(nodes) :
       SetStore(addEdge(Store, NewEdge(nextEdgeId, nodes[i].id, nodes[j].id, "")))
  /\ nextEdgeId' = nextEdgeId + 1
  /\ settled' = <<>>
  /\ gestures' = gestures + 1
  /\ UNCHANGED <<syncVars, animationRequests, treeVars, projectVars, overlayVars, viewVars, storeOp, requests, ideaLoop, nextNodeId>>

\* ReactFlowCanvas.onEdgeUpdate: an end of a drawn edge is dragged to a node of the canvas
OnEdgeUpdate ==
  /\ gestures < MaxGestures
  /\ CanvasFree
  /\ \E e \in 1..Len(edges) : \E i \in 1..Len(nodes) : \E j \in 1..Len(nodes) :
       /\ HasNode(nodes, edges[e].fromNodeId)
       /\ HasNode(nodes, edges[e].toNodeId)
       /\ <<nodes[i].id, nodes[j].id>> # <<edges[e].fromNodeId, edges[e].toNodeId>>
       /\ SetStore(updateEdge(Store, edges[e].id,
                              [fromNodeId |-> nodes[i].id, toNodeId |-> nodes[j].id,
                               fromAnchor |-> "bottom", toAnchor |-> "top"]))
  /\ settled' = <<>>
  /\ gestures' = gestures + 1
  /\ UNCHANGED <<syncVars, animationRequests, treeVars, projectVars, overlayVars, viewVars, storeOp, requests, ideaLoop, nextNodeId, nextEdgeId>>

\* ReactFlowCanvas.onNodesDelete (the Delete and Backspace keys) and the delete
\* confirmation of a node: deleteNode
OnNodesDelete ==
  /\ gestures < MaxGestures
  /\ \E i \in 1..Len(nodes) : SetStore(deleteNode(Store, nodes[i].id))
  /\ settled' = <<>>
  /\ gestures' = gestures + 1
  /\ UNCHANGED <<syncVars, animationRequests, treeVars, projectVars, overlayVars, viewVars, storeOp, requests, ideaLoop, nextNodeId, nextEdgeId>>

\* ReactFlowCanvas.onEdgesDelete: deleteEdge
OnEdgesDelete ==
  /\ gestures < MaxGestures
  /\ \E e \in 1..Len(edges) : SetStore(deleteEdge(Store, edges[e].id))
  /\ settled' = <<>>
  /\ gestures' = gestures + 1
  /\ UNCHANGED <<syncVars, animationRequests, treeVars, projectVars, overlayVars, viewVars, storeOp, requests, ideaLoop, nextNodeId, nextEdgeId>>

\* saveCurrentProjectToBackend without a current project: createProject
SaveWithoutProject ==
  /\ currentProject = <<>>
  /\ SetStore(createProject(Store))
  /\ settled' = <<>>
  /\ UNCHANGED <<syncVars, animationRequests, treeVars, projectVars, overlayVars, viewVars, storeOp, requests, ideaLoop, nextNodeId, nextEdgeId, gestures>>

AppNext ==
  \/ HandleSubmit
  \/ CreateResolved
  \/ CreateRejected
  \/ HandleRegenerateClick
  \/ RegenerateResolved
  \/ RegenerateRejected
  \/ Expand
  \/ ExpandResolved
  \/ ExpandRejected
  \/ CreateSelectedNodes
  \/ IdeaResolved
  \/ IdeaRejected
  \/ OnClose
  \/ OnConnect
  \/ OnEdgeUpdate
  \/ OnNodesDelete
  \/ OnEdgesDelete
  \/ SaveWithoutProject

SpecApp == AppInit /\ [][AppNext]_vars

\* ---- properties of the canvas and of the generations ----
\* C8 as stated: at every moment both ends of every edge of the store are ids of nodes of
\* the store.
EdgeEndpointsExist ==
  \A e \in 1..Len(edges) :
    /\ HasNode(nodes, edges[e].fromNodeId)
    /\ HasNode(nodes, edges[e].toNodeId)

\* C9 as stated: when a generation request of a node has just rejected and the node is in
\* the store, its status is error and its summary, contentMd and toc are those it had when
\* the request was made.
FailureKeepsContent ==
  (settled # <<>> /\ settled[1].outcome = "rejected" /\ HasNode(nodes, settled[1].node)) =>
    /\ NodeById(nodes, settled[1].node).status = "error"
    /\ ContentOf(NodeById(nodes, settled[1].node)) = settled[1].before

\* C10 as stated: in every step the status of a node becomes completed or error only if it
\* was generating, and a node for which a request is made in the step is generating.
StatusMachine ==
  [][/\ \A i \in 1..Len(nodes') :
          (/\ nodes'[i].status \in {"completed", "error"}
           /\ HasNode(nodes, nodes'[i].id)
           /\ NodeById(nodes, nodes'[i].id).status # nodes'[i].status)
          => NodeById(nodes, nodes'[i].id).status = "generating"
     /\ \A r \in requests' \ requests :
          /\ HasNode(nodes', r.node)
          /\ NodeById(nodes', r.node).status = "generating"]_vars

\* ---- the generations alone, with requests that settle ----
GenerationNext ==
  \/ HandleSubmit
  \/ CreateResolved
  \/ CreateRejected
  \/ HandleRegenerateClick
  \/ RegenerateResolved
  \/ RegenerateRejected
  \/ Expand
  \/ ExpandResolved
  \/ ExpandRejected
  \/ CreateSelectedNodes
  \/ IdeaResolved
  \/ IdeaRejected
  \/ OnClose

\* apiClient.generateNode settles: a pending request of each call site rejects or resolves
RequestsSettle ==
  /\ WF_vars(CreateRejected \/ CreateResolved)
  /\ WF_vars(RegenerateRejected \/ RegenerateResolved)
  /\ WF_vars(ExpandRejected \/ ExpandResolved)
  /\ WF_vars(IdeaRejected \/ IdeaResolved)

\* no node is deleted or replaced: the canvas deletes nothing, no project is created,
\* imported or loaded
SpecGeneration == AppInit /\ [][GenerationNext]_vars /\ RequestsSettle

\* the node has a request in flight
Generating(n) == RequestsFor(n) # {}

\* the node is in the store with a terminal status
Terminal(n) == HasNode(nodes, n) /\ NodeById(nodes, n).status \in {"completed", "error"}

\* C17 as stated: whenever a generation request is in flight for a node, the status of the
\* node is completed or error at some later moment, and once no request is in flight for
\* it the node is not generating.
GenerationTerminates ==
  /\ \A n \in 1..MaxNodes : Generating(n) ~> Terminal(n)
  /\ \A n \in 1..MaxNodes : [](HasNode(nodes, n) /\ ~Generating(n) => Terminal(n))

\* C17 witness: the request of a regeneration has just rejected and the node is in error
GenerationTerminatesWitness ==
  /\ settled # <<>>
  /\ settled[1].kind = "regenerate"
  /\ settled[1].outcome = "rejected"
  /\ Terminal(settled[1].node)
  /\ ~Generating(settled[1].node)

\* C16 as stated: at every moment no node has two generation requests in flight.
NoRacingGenerations ==
  \A r1 \in requests : \A r2 \in requests : r1.node = r2.node => r1 = r2

\* ------------------------------------------------------------------------
\* buildNodeContext (nodeUtils): the neighbours of a node handed to a generation
\* ------------------------------------------------------------------------
\* { id, theme, summary } of a node (the theme is left out)
Brief(n) == [id |-> n.id, summary |-> n.summary]

Briefs(list) == [i \in 1..Len(list) |-> Brief(list[i])]

\* getParentNode: absent (null) without parentId or when no node has that id
getParentNode(nodeList, node) ==
  IF node.parentId = <<>> THEN <<>>
  ELSE IF HasNode(nodeList, node.parentId[1]) THEN <<NodeById(nodeList, node.parentId[1])>>
  ELSE <<>>

\* getSiblingNodes: the other nodes with the parentId of the node
getSiblingNodes(nodeList, node) ==
  LET sibling(n) == n.parentId = node.parentId /\ n.id # node.id
  IN IF node.parentId = <<>> THEN <<>> ELSE SelectSeq(nodeList, sibling)

\* childIdSet: the ids added for n.parentId === node.id and for e.fromNodeId === node.id
ChildIdSet(node, nodeList, edgeList) ==
  {nodeList[i].id : i \in {j \in 1..Len(nodeList) : nodeList[j].parentId = <<node.id>>}}
  \cup {edgeList[i].toNodeId : i \in {j \in 1..Len(edgeList) : edgeList[j].fromNodeId = node.id}}

\* a plausible slip: the children by parentId, followed by the targets of the edges
ChildNodesConcat(node, nodeList, edgeList) ==
  LET byParent(n) == n.parentId = <<node.id>>
      byEdge(n) == \E j \in 1..Len(edgeList) :
                     edgeList[j].fromNodeId = node.id /\ edgeList[j].toNodeId = n.id
  IN SelectSeq(nodeList, byParent) \o SelectSeq(nodeList, byEdge)

\* children: nodes.filter(n => childIdSet.has(n.id))
ChildNodes(node, nodeList, edgeList) ==
  LET isChild(n) == n.id \in ChildIdSet(node, nodeList, edgeList)
  IN SelectSeq(nodeList, isChild)

buildNodeContext(node, nodeList, edgeList) ==
  [parentNode |-> Briefs(getParentNode(nodeList, node)),
   siblingNodes |-> Briefs(getSiblingNodes(nodeList, node)),
   childNodes |-> Briefs(ChildNodes(node, nodeList, edgeList))]

\* ---- inputs: any node and any graph ----
ContextIds == 1..MaxContextIds

\* summaries tell the nodes of one id apart
ContextNodes ==
  {NewNode(id, p, "completed", <<ToString(id)>>) : id \in ContextIds,
                                                  p \in {<<>>} \cup {<<q>> : q \in ContextIds}}

ContextEdges == {NewEdge(0, a, b, "") : a \in ContextIds, b \in ContextIds}

\* the edges of a graph have the ids the store gave them
WithEdgeIds(list) == [i \in 1..Len(list) |-> [list[i] EXCEPT !.id = i]]

ContextInit ==
  /\ TreeIdle
  /\ SyncIdle
  /\ AnimationIdle
  /\ OverlayIdle
  /\ ViewIdle
  /\ GenerationIdle
  /\ storeOp = NoCall
  /\ currentProject = <<>>
  /\ nodes \in SeqsUpTo(ContextNodes, MaxContextLen)
  /\ \E list \in SeqsUpTo(ContextEdges, MaxContextLen) : edges = WithEdgeIds(list)
  /\ importing = <<>>
  /\ importError = <<>>
  /\ remote = <<>>
  /\ selectedNode = <<>>
  /\ nextAnnotationId = 1
  /\ nodeContext = <<>>

\* a call site builds the context of a node: buildNodeContext(node, nodes, edges)
BuildNodeContext ==
  /\ nodeContext = <<>>
  /\ \E node \in ContextNodes :
       nodeContext' = <<[node |-> node, result |-> buildNodeContext(node, nodes, edges)]>>
  /\ UNCHANGED <<importing, importError, remote, selectedNode, nextAnnotationId>>
  /\ UNCHANGED <<syncVars, animationRequests, treeVars, overlayVars, viewVars, storeVars, generationVars>>

ContextNext == BuildNodeContext

SpecContext == ContextInit /\ [][ContextNext]_vars

\* ---- properties of buildNodeContext ----
\* the node at position i of the graph is a child of n: by its parentId, or as the target
\* of an edge that leaves n
IsChildOf(i, n) ==
  \/ nodes[i].parentId = <<n.id>>
  \/ \E e \in 1..Len(edges) : edges[e].fromNodeId = n.id /\ edges[e].toNodeId = nodes[i].id

\* the node at position i carries the id of a child of n
HasChildId(i, n) == \E j \in 1..Len(nodes) : nodes[j].id = nodes[i].id /\ IsChildOf(j, n)

\* childNodes lists each node of the graph that satisfies Is, once, and nothing else
ListsExactly(kids, Is(_)) ==
  /\ Len(kids) = Cardinality({i \in 1..Len(nodes) : Is(i)})
  /\ \A b \in {Brief(c) : c \in ContextNodes} :
       Cardinality({k \in 1..Len(kids) : kids[k] = b})
         = Cardinality({i \in 1..Len(nodes) : Is(i) /\ Brief(nodes[i]) = b})

\* C13 as stated: the childNodes returned for a node n and a graph list every node of the
\* graph whose parentId is n.id or that is the target of an edge leaving n, each exactly
\* once even when it qualifies both ways, and nothing else.
ChildrenAreUnionPerNode ==
  nodeContext # <<>> =>
    LET Is(i) == IsChildOf(i, nodeContext[1].node)
    IN ListsExactly(nodeContext[1].result.childNodes, Is)

\* C13 (amended): the childNodes list every node of the graph that carries the id of a
\* node whose parentId is n.id or the id an edge leaving n points to, each exactly once even
\* when it qualifies both ways, and nothing else; with pairwise distinct node ids these are
\* the nodes of the statement above.
ChildrenAreUnion ==
  nodeContext # <<>> =>
    LET Is(i) == HasChildId(i, nodeContext[1].node)
    IN /\ ListsExactly(nodeContext[1].result.childNodes, Is)
       /\ (\A i, j \in 1..Len(nodes) : nodes[i].id = nodes[j].id => i = j) =>
            \A i \in 1..Len(nodes) : Is(i) <=> IsChildOf(i, nodeContext[1].node)

\* C13 witness: one child qualifies both by parentId and by an edge, another only by an
\* edge, and both are listed
ChildrenAreUnionWitness ==
  /\ nodeContext # <<>>
  /\ Len(nodeContext[1].result.childNodes) = 2
  /\ \E i, j \in 1..Len(nodes) :
       /\ nodes[i].id # nodes[j].id
       /\ nodes[i].parentId = <<nodeContext[1].node.id>>
       /\ \E e \in 1..Len(edges) :
            edges[e].fromNodeId = nodeContext[1].node.id /\ edges[e].toNodeId = nodes[i].id
       /\ nodes[j].parentId # <<nodeContext[1].node.id>>
       /\ \E e \in 1..Len(edges) :
            edges[e].fromNodeId = nodeContext[1].node.id /\ edges[e].toNodeId = nodes[j].id


\* ------------------------------------------------------------------------
\* Import of a project, its copy on the backend, and the annotations made in the
\* detail view (SettingsPanel.tsx, WorkspacePage.tsx, NodeDetailView.tsx)
\* ------------------------------------------------------------------------
\* an annotation of a node (author, timestamp and originalText are left out)
Annotation(id, range, text, type) == [id |-> id, range |-> range, text |-> text, type |-> type]

\* What JSON.parse gives is tagged by what isRecord tells about it: t is "record" for an
\* object, "other" for an array, a string, a number or null; a field that is missing or
\* of another type than the one asked for is absent.
RawRange(start, end) == <<[start |-> start, end |-> end]>>

RawAnnotation(t, id, range) == [t |-> t, id |-> id, range |-> range]

RawNode(t, id, parentId, contentMd, annotations) ==
  [t |-> t, id |-> id, parentId |-> parentId, contentMd |-> contentMd,
   annotations |-> annotations]

RawEdge(t, id, fromNodeId, toNodeId) ==
  [t |-> t, id |-> id, fromNodeId |-> fromNodeId, toNodeId |-> toNodeId]

\* the root: "malformed" stands for a text JSON.parse throws on
RawProject(t, rawNodes, rawEdges) == [t |-> t, nodes |-> rawNodes, edges |-> rawEdges]

isRecord(raw) == raw.t = "record"

\* typeof raw.id === 'string' ? raw.id : crypto.randomUUID()
NeedsId(raw) == ~isRecord(raw) \/ raw.id = <<>>

\* how many of the values before position k take an id from crypto.randomUUID()
FreshBefore(raws, k) == Cardinality({j \in 1..(k - 1) : NeedsId(raws[j])})

IdOr(raw, fresh) == IF NeedsId(raw) THEN fresh ELSE raw.id[1]

\* typeof v === 'number' ? v : 0
NumberOr0(v) == IF v = <<>> THEN 0 ELSE v[1]

normalizeAnnotation(raw, fresh) ==
  IF ~isRecord(raw) THEN Annotation(fresh, Range(0, 0), <<>>, NoValue)
  ELSE Annotation(IdOr(raw, fresh),
                  IF raw.range # <<>>
                  THEN Range(NumberOr0(raw.range[1].start), NumberOr0(raw.range[1].end))
                  ELSE Range(0, 0),
                  <<>>, NoValue)

\* raw.annotations.map(normalizeAnnotation), or [] when it is not an array
NormalizeAnnotations(rawList, fresh) ==
  IF rawList = <<>> THEN <<>>
  ELSE [k \in 1..Len(rawList[1]) |->
          normalizeAnnotation(rawList[1][k], fresh + FreshBefore(rawList[1], k))]

\* the ids normalizeAnnotation draws for the annotations of one raw node
FreshAnnotations(raw) ==
  IF ~isRecord(raw) \/ raw.annotations = <<>> THEN 0
  ELSE FreshBefore(raw.annotations[1], Len(raw.annotations[1]) + 1)

RECURSIVE FreshAnnotationsBefore(_, _)
FreshAnnotationsBefore(raws, k) ==
  IF k <= 1 THEN 0
  ELSE FreshAnnotationsBefore(raws, k - 1) + FreshAnnotations(raws[k - 1])

\* normalizeNode: the files of the model carry no summary, toc or status, which default
normalizeNode(raw, fresh, freshAnnotation) ==
  IF ~isRecord(raw) THEN NewNode(fresh, <<>>, "completed", <<>>)
  ELSE [id |-> IdOr(raw, fresh),
        parentId |-> raw.parentId,
        status |-> "completed",
        summary |-> <<>>,
        contentMd |-> IF raw.contentMd = <<>> THEN <<>> ELSE raw.contentMd[1],
        toc |-> <<>>,
        annotations |-> NormalizeAnnotations(raw.annotations, freshAnnotation)]

\* normalizeEdge gives null: the value is no record or lacks an end
NoEdge(raw) == ~isRecord(raw) \/ raw.fromNodeId = <<>> \/ raw.toNodeId = <<>>

\* normalizeEdge: absent (null), or the edge
normalizeEdge(raw, fresh) ==
  IF NoEdge(raw) THEN <<>>
  ELSE <<NewEdge(IdOr(raw, fresh), raw.fromNodeId[1], raw.toNodeId[1], "")>>

\* how many of the edges before position k take an id from crypto.randomUUID()
FreshEdgesBefore(raws, k) ==
  Cardinality({j \in 1..(k - 1) : ~NoEdge(raws[j]) /\ raws[j].id = <<>>})

\* what a build of a project gives: the project, or the message of the error thrown
Built(nodeList, edgeList) == [project |-> Project(nodeList, edgeList), message |-> <<>>]
Thrown(message) == [project |-> <<>>, message |-> <<message>>]

\* Array.isArray(raw.nodes) ? raw.nodes : []
ArrayOrEmpty(v) == IF v = <<>> THEN <<>> ELSE v[1]

\* .map(normalizeEdge).filter(e => !!e && nodeIdSet.has(e.fromNodeId) && nodeIdSet.has(e.toNodeId))
KeptEdges(edgesRaw, nodeList, freshEdge) ==
  LET normalized == [k \in 1..Len(edgesRaw) |->
                       normalizeEdge(edgesRaw[k], freshEdge + FreshEdgesBefore(edgesRaw, k))]
      kept(e) == e # <<>> /\ HasNode(nodeList, e[1].fromNodeId) /\ HasNode(nodeList, e[1].toNodeId)
      list == SelectSeq(normalized, kept)
  IN [k \in 1..Len(list) |-> list[k][1]]

ProjectFromRecord(raw, freshNode, freshEdge, freshAnnotation) ==
  LET nodesRaw == ArrayOrEmpty(raw.nodes)
      nodeList == [k \in 1..Len(nodesRaw) |->
                     normalizeNode(nodesRaw[k], freshNode + FreshBefore(nodesRaw, k),
                                   freshAnnotation + FreshAnnotationsBefore(nodesRaw, k))]
  IN Built(nodeList, KeptEdges(ArrayOrEmpty(raw.edges), nodeList, freshEdge))

\* a plausible slip: a root that is no object is read as a project without nodes
buildProjectFromJsonLenient(raw, freshNode, freshEdge, freshAnnotation) ==
  IF ~isRecord(raw) THEN Built(<<>>, <<>>)
  ELSE ProjectFromRecord(raw, freshNode, freshEdge, freshAnnotation)

buildProjectFromJson(raw, freshNode, freshEdge, freshAnnotation) ==
  IF ~isRecord(raw) THEN Thrown("root")
  ELSE ProjectFromRecord(raw, freshNode, freshEdge, freshAnnotation)

\* buildProjectFromMarkdown: one completed node that holds the text
buildProjectFromMarkdown(markdown, freshNode) ==
  Built(<<[NewNode(freshNode, <<>>, "completed", <<>>) EXCEPT !.contentMd = markdown]>>, <<>>)

\* a file picked in the dialog: the end of its name, its text when it is read as
\* markdown, and what JSON.parse makes of its text
File(ext, markdown, json) == [ext |-> ext, markdown |-> markdown, json |-> json]

\* the try block of handleImportChange once file.text() has resolved
ImportOf(file, freshNode, freshEdge, freshAnnotation) ==
  IF file.ext = "md" THEN buildProjectFromMarkdown(file.markdown, freshNode)
  ELSE IF file.json.t = "malformed" THEN Thrown("syntax")
  ELSE buildProjectFromJson(file.json, freshNode, freshEdge, freshAnnotation)

\* the ids crypto.randomUUID() gave while the file was built
FreshNodesOf(file) ==
  IF file.ext = "md" THEN 1
  ELSE IF ~isRecord(file.json) THEN 0
  ELSE FreshBefore(ArrayOrEmpty(file.json.nodes), Len(ArrayOrEmpty(file.json.nodes)) + 1)

FreshEdgesOf(file) ==
  IF file.ext = "md" \/ ~isRecord(file.json) THEN 0
  ELSE FreshEdgesBefore(ArrayOrEmpty(file.json.edges), Len(ArrayOrEmpty(file.json.edges)) + 1)

FreshAnnotationsOf(file) ==
  IF file.ext = "md" \/ ~isRecord(file.json) THEN 0
  ELSE FreshAnnotationsBefore(ArrayOrEmpty(file.json.nodes), Len(ArrayOrEmpty(file.json.nodes)) + 1)

\* ---- the files of the model ----
\* ids written in the files: nodes 11 and 12 (no node has 13), edges 21 and 22,
\* annotation 31
NoId == <<>>

NotARecord == "other"

\* nodes 11 (text ab, one annotation on its first character) and 12 (child of 11); an
\* edge between them, an edge to the missing node 13, an edge without a toNodeId
GraphFile ==
  File("json", <<>>,
       RawProject("record",
         <<<<RawNode("record", <<11>>, <<>>, <<<<"a", "b">>>>,
                     <<<<RawAnnotation("record", <<31>>, RawRange(<<0>>, <<1>>))>>>>),
             RawNode("record", <<12>>, <<11>>, <<>>, <<>>)>>>>,
         <<<<RawEdge("record", <<21>>, <<11>>, <<12>>),
             RawEdge("record", <<22>>, <<11>>, <<13>>),
             RawEdge("record", NoId, <<11>>, <<>>)>>>>))

\* a node that is no record, and node 11 with annotations that lack an id, a range or
\* the end of the range; edges is no array
LooseFile ==
  File("json", <<>>,
       RawProject("record",
         <<<<RawNode(NotARecord, NoId, <<>>, <<>>, <<>>),
             RawNode("record", <<11>>, <<>>, <<<<"a", "b">>>>,
                     <<<<RawAnnotation("record", NoId, <<>>),
                         RawAnnotation("record", <<31>>, RawRange(<<1>>, <<>>))>>>>)>>>>,
         <<>>))

\* a text that JSON.parse throws on
MalformedFile == File("json", <<>>, RawProject("malformed", <<>>, <<>>))

\* a text that parses to an array, a string, a number or null
NotObjectFile == File("json", <<>>, RawProject(NotARecord, <<>>, <<>>))

MarkdownFile == File("md", <<"#", " ", "a">>, RawProject("malformed", <<>>, <<>>))

ImportFiles == {GraphFile, LooseFile, MalformedFile, NotObjectFile, MarkdownFile}

\* the record of the last step when it ended an import or a load: the store before it,
\* the file read (absent for a load), the ends of the edges of what was read, and whether
\* a project was committed
Loaded(kind, before, file, source, outcome) ==
  <<[kind |-> kind, node |-> 0, before |-> before, file |-> file, source |-> source,
     outcome |-> outcome]>>

Ends(edgeList) ==
  [k \in 1..Len(edgeList) |-> <<edgeList[k].fromNodeId, edgeList[k].toNodeId>>]

\* the ends of the raw edges of a file that name both
RawEnds(file) ==
  IF file.ext = "md" \/ ~isRecord(file.json) THEN <<>>
  ELSE LET hasEnds(raw) == ~NoEdge(raw)
           list == SelectSeq(ArrayOrEmpty(file.json.edges), hasEnds)
       IN [k \in 1..Len(list) |-> <<list[k].fromNodeId[1], list[k].toNodeId[1]>>]

\* setCurrentProject(project)
setCurrentProject(project) ==
  [nodes |-> project[1].nodes, edges |-> project[1].edges, currentProject |-> project]

\* ---- the handlers ----
\* handleImportClick and handleImportChange up to `await file.text()`: a file is picked
\* while no import is running
HandleImportChange ==
  /\ gestures < MaxProjectGestures
  /\ importing = <<>>
  /\ \E file \in ImportFiles : importing' = <<file>>
  /\ importError' = <<>>
  /\ settled' = <<>>
  /\ gestures' = gestures + 1
  /\ UNCHANGED <<remote, selectedNode, nextAnnotationId, nodeContext>>
  /\ UNCHANGED <<syncVars, animationRequests, treeVars, overlayVars, viewVars, storeVars, requests, ideaLoop, nextNodeId, nextEdgeId>>

\* handleImportChange from the end of file.text() on: the project is built and
\* committed, or the error is caught and its message shown
ImportRead ==
  /\ importing # <<>>
  /\ LET file == importing[1]
         built == ImportOf(file, nextNodeId, nextEdgeId, nextAnnotationId)
     IN IF built.message = <<>>
        THEN /\ SetStore(setCurrentProject(built.project))
             /\ importError' = importError
             /\ nextNodeId' = nextNodeId + FreshNodesOf(file)
             /\ nextEdgeId' = nextEdgeId + FreshEdgesOf(file)
             /\ nextAnnotationId' = nextAnnotationId + FreshAnnotationsOf(file)
             /\ settled' = Loaded("import", Store, <<file>>, RawEnds(file), "resolved")
        ELSE /\ importError' = built.message
             /\ settled' = Loaded("import", Store, <<file>>, RawEnds(file), "rejected")
             /\ UNCHANGED <<nodes, edges, currentProject, nextNodeId, nextEdgeId, nextAnnotationId>>
  /\ importing' = <<>>
  /\ UNCHANGED <<remote, selectedNode, nodeContext>>
  /\ UNCHANGED <<syncVars, animationRequests, treeVars, overlayVars, viewVars, storeOp, requests, ideaLoop, gestures>>

\* saveCurrentProjectToBackend: nodes and edges are read first, a project is created when
\* there is none, and the lists read are sent; the backend keeps them as sent, or the
\* request fails and the error is logged
SaveCurrentProjectToBackend ==
  /\ \E ok \in BOOLEAN : remote' = IF ok THEN Project(nodes, edges) ELSE remote
  /\ IF currentProject = <<>>
     THEN SetStore(createProject(Store))
     ELSE UNCHANGED <<nodes, edges, currentProject>>
  /\ settled' = <<>>
  /\ UNCHANGED <<importing, importError, selectedNode, nextAnnotationId, nodeContext>>
  /\ UNCHANGED <<syncVars, animationRequests, treeVars, overlayVars, viewVars, storeOp, requests, ideaLoop, nextNodeId, nextEdgeId, gestures>>

\* loadRemoteProject, run when the workspace page is entered: the project the backend
\* holds becomes the current project
LoadRemoteProject ==
  /\ gestures < MaxProjectGestures
  /\ selectedNode = <<>>
  /\ ideaLoop = <<>>
  /\ importing = <<>>
  /\ remote # <<>>
  /\ SetStore(setCurrentProject(Project(remote[1].nodes, remote[1].edges)))
  /\ importError' = <<>>
  /\ settled' = Loaded("load", Store, <<>>, Ends(remote[1].edges), "resolved")
  /\ gestures' = gestures + 1
  /\ UNCHANGED <<importing, remote, selectedNode, nextAnnotationId, nodeContext>>
  /\ UNCHANGED <<syncVars, animationRequests, treeVars, overlayVars, viewVars, storeOp, requests, ideaLoop, nextNodeId, nextEdgeId>>

\* Canvas.onNodeDoubleClick = setSelectedNode: the detail view opens on the node as it
\* is now
OnNodeDoubleClick ==
  /\ gestures < MaxProjectGestures
  /\ CanvasFree
  /\ \E i \in 1..Len(nodes) : selectedNode' = <<nodes[i]>>
  /\ settled' = <<>>
  /\ gestures' = gestures + 1
  /\ UNCHANGED <<importing, importError, remote, nextAnnotationId, nodeContext>>
  /\ UNCHANGED <<syncVars, animationRequests, treeVars, overlayVars, viewVars, storeVars, requests, ideaLoop, nextNodeId, nextEdgeId>>

\* NodeDetailView.onClose = setSelectedNode(null)
OnDetailClose ==
  /\ gestures < MaxProjectGestures
  /\ selectedNode # <<>>
  /\ selectedNode' = <<>>
  /\ settled' = <<>>
  /\ gestures' = gestures + 1
  /\ UNCHANGED <<importing, importError, remote, nextAnnotationId, nodeContext>>
  /\ UNCHANGED <<syncVars, animationRequests, treeVars, overlayVars, viewVars, storeVars, requests, ideaLoop, nextNodeId, nextEdgeId>>

\* the places where text occurs in content
Occurrences(content, text) ==
  {i \in 0..(Len(content) - Len(text)) : Slice(content, i, i + Len(text)) = text}

\* the trimmed texts, not empty, that can be selected in a node with this contentMd; the
\* rendered text is not the markdown: z stands for a selection that does not occur in it
SelectableTexts(content) ==
  IF content = <<>> THEN {}
  ELSE {t \in {Slice(content, a, b) : a \in 0..Len(content), b \in 0..Len(content)} :
          t # <<>> /\ Trim(t) = t} \cup {<<"z">>}

\* what handleTextSelection leaves in selectedText and selectionRange: the text, and the
\* occurrence of it in contentMd that the count over the rendered text picked, or null
\* when there is none
Selections(content) ==
  {[text |-> t, range |-> <<>>] : t \in SelectableTexts(content)}
    \cup UNION {{[text |-> t, range |-> Range(i, i + Len(t))] : i \in Occurrences(content, t)} :
                  t \in SelectableTexts(content)}

\* selectionRange || { start: Math.max(0, idx), end: Math.max(0, idx) + text.length }
\* with idx = node.contentMd.indexOf(text)
AnnotationRange(node, text, selectionRange) ==
  IF selectionRange # <<>> THEN selectionRange
  ELSE Range(Max(0, IndexOf(node.contentMd, text)),
             Max(0, IndexOf(node.contentMd, text)) + Len(text))

\* a plausible slip: the handlers work on the node the detail view was opened on
DetailNodeAsOpened == selectedNode[1]

\* useAppStore(state => state.nodes.find(n => n.id === initialNode.id) || initialNode):
\* the handlers of the detail view work on the node as the store has it now
DetailNode ==
  IF HasNode(nodes, selectedNode[1].id) THEN NodeById(nodes, selectedNode[1].id)
  ELSE selectedNode[1]

\* updateNode(node.id, { annotations: [...node.annotations, anno] }) with the node of the
\* detail view
WithAnnotation(st, node, anno) ==
  updateNode(st, node.id, [annotations |-> Append(node.annotations, anno)])

\* handleToolbarAction('favorite') on a selection of the node shown
Favorite ==
  /\ gestures < MaxProjectGestures
  /\ selectedNode # <<>>
  /\ nextAnnotationId <= MaxAnnotations
  /\ \E sel \in Selections(DetailNode.contentMd) :
       SetStore(WithAnnotation(Store, DetailNode,
                               Annotation(nextAnnotationId,
                                          AnnotationRange(DetailNode, sel.text, sel.range),
                                          sel.text, "favorite")))
  /\ nextAnnotationId' = nextAnnotationId + 1
  /\ settled' = <<>>
  /\ gestures' = gestures + 1
  /\ UNCHANGED <<importing, importError, remote, selectedNode, nodeContext>>
  /\ UNCHANGED <<syncVars, animationRequests, treeVars, overlayVars, viewVars, storeOp, requests, ideaLoop, nextNodeId, nextEdgeId>>

\* the confirm button of the annotation dialog, which handleToolbarAction('annotate')
\* opened on a selection of the node shown; the comment typed is not blank
AnnotationConfirm ==
  /\ gestures < MaxProjectGestures
  /\ selectedNode # <<>>
  /\ nextAnnotationId <= MaxAnnotations
  /\ \E sel \in Selections(DetailNode.contentMd) :
       SetStore(WithAnnotation(Store, DetailNode,
                               Annotation(nextAnnotationId,
                                          AnnotationRange(DetailNode, sel.text, sel.range),
                                          <<"c">>, "comment")))
  /\ nextAnnotationId' = nextAnnotationId + 1
  /\ settled' = <<>>
  /\ gestures' = gestures + 1
  /\ UNCHANGED <<importing, importError, remote, selectedNode, nodeContext>>
  /\ UNCHANGED <<syncVars, animationRequests, treeVars, overlayVars, viewVars, storeOp, requests, ideaLoop, nextNodeId, nextEdgeId>>

\* the handlers of the canvas take part while gestures are left in MaxProjectGestures
ProjectNext ==
  \/ HandleImportChange
  \/ ImportRead
  \/ SaveCurrentProjectToBackend
  \/ LoadRemoteProject
  \/ OnNodeDoubleClick
  \/ OnDetailClose
  \/ Favorite
  \/ AnnotationConfirm
  \/ (gestures < MaxProjectGestures /\ HandleRegenerateClick)
  \/ RegenerateResolved
  \/ RegenerateRejected
  \/ (gestures < MaxProjectGestures /\ CreateSelectedNodes)
  \/ IdeaResolved
  \/ IdeaRejected
  \/ (gestures < MaxProjectGestures /\ OnNodesDelete)

SpecProject == AppInit /\ [][ProjectNext]_vars

\* ---- properties of import and load ----
\* the last step ended an import
ImportEnded == IF settled = <<>> THEN FALSE ELSE settled[1].kind = "import"

\* the last step put a project in the store, from a file or from the backend
ProjectLoaded ==
  IF settled = <<>> THEN FALSE
  ELSE settled[1].kind \in {"import", "load"} /\ settled[1].outcome = "resolved"

\* the file is read as JSON and its text fails to parse or its root is no object
BrokenFile(file) == file.ext # "md" /\ file.json.t # "record"

\* C11 as stated: when an import has just ended on a file that fails to parse or whose
\* root is no object, currentProject, nodes and edges are what they were before it and one
\* error message is recorded; and an import that has just ended changed the store only to
\* the project built from the whole file.
ImportAllOrNothing ==
  ImportEnded =>
    IF BrokenFile(settled[1].file[1])
    THEN /\ Store = settled[1].before
         /\ Len(importError) = 1
    ELSE /\ currentProject # <<>>
         /\ nodes = currentProject[1].nodes
         /\ edges = currentProject[1].edges
         /\ importError = <<>>

\* C11 witness: an import has just failed over a store that holds a project
ImportAllOrNothingWitness ==
  /\ ImportEnded
  /\ BrokenFile(settled[1].file[1])
  /\ nodes # <<>>
  /\ currentProject # <<>>

\* C12 as stated: when a project has just been loaded into the store, from a file or from
\* the backend, both ends of every edge of the store are ids of loaded nodes, and every
\* edge of the store has the ends of an edge of what was read.
DanglingEdgesDropped ==
  ProjectLoaded =>
    \A e \in 1..Len(edges) :
      /\ HasNode(nodes, edges[e].fromNodeId)
      /\ HasNode(nodes, edges[e].toNodeId)
      /\ \E k \in 1..Len(settled[1].source) :
           settled[1].source[k] = <<edges[e].fromNodeId, edges[e].toNodeId>>

\* C15 as stated: every annotation of a node of the store that carries a range has
\* 0 <= start < end <= the length of the contentMd of the node.
AnnotationRangeInvariant ==
  \A i \in 1..Len(nodes) : \A k \in 1..Len(nodes[i].annotations) :
    nodes[i].annotations[k].range # <<>> =>
      /\ 0 <= nodes[i].annotations[k].range[1].start
      /\ nodes[i].annotations[k].range[1].start < nodes[i].annotations[k].range[1].end
      /\ nodes[i].annotations[k].range[1].end <= Len(nodes[i].contentMd)

\* ------------------------------------------------------------------------
\* Tree utilities (getChildNodes, getNodeDepth, updateNodePosition,
\* generateTreeLayout) and SettingsPanel.handleExportMarkdown
\* ------------------------------------------------------------------------
MaxTreeLen == 3
MaxTreeIds == 3
MaxChain == 7
\* the number `depth` of getNodeDepth stays at once it was reached
MaxDepthCount == 8

NODE_SPACING_X == 250
NODE_SPACING_Y == 150

Position(x, y) == [x |-> x, y |-> y]

\* the fields of a node the tree utilities and the export read and write
TreeNode(id, parentId, position, theme) ==
  [id |-> id, parentId |-> parentId, position |-> position, theme |-> theme]

\* getChildNodes: nodes.filter(node => node.parentId === parentId)
getChildNodes(nodeList, parentId) ==
  LET isChild(n) == n.parentId = <<parentId>>
  IN SelectSeq(nodeList, isChild)

\* Array.prototype.findIndex(n => n.id === id), 1-based; 0 stands for -1
findIndex(nodeList, id) ==
  IF HasNode(nodeList, id)
  THEN CHOOSE i \in 1..Len(nodeList) : nodeList[i].id = id /\ \A j \in 1..(i - 1) : nodeList[j].id # id
  ELSE 0

RECURSIVE ShiftEach(_, _, _, _, _)
\* childNodes.forEach(child => ...) from the k-th child on: the first node with the id of
\* the child is moved by the delta
ShiftEach(updatedNodes, childNodes, k, deltaX, deltaY) ==
  IF k > Len(childNodes) THEN updatedNodes
  ELSE LET childIndex == findIndex(updatedNodes, childNodes[k].id)
       IN ShiftEach([updatedNodes EXCEPT ![childIndex].position =
                       Position(@.x + deltaX, @.y + deltaY)],
                    childNodes, k + 1, deltaX, deltaY)

\* updateNodePosition (metadata.updatedAt is not modelled)
updateNodePosition(nodeList, nodeId, newPosition) ==
  LET nodeIndex == findIndex(nodeList, nodeId) IN
  IF nodeIndex = 0 THEN nodeList
  ELSE LET oldPosition == nodeList[nodeIndex].position
           deltaX == newPosition.x - oldPosition.x
           deltaY == newPosition.y - oldPosition.y
           updatedNodes == [nodeList EXCEPT ![nodeIndex].position = newPosition]
       IN ShiftEach(updatedNodes, getChildNodes(updatedNodes, nodeId), 1, deltaX, deltaY)

\* what a call of layoutChildren leaves: the nodes, and whether the call stack overflowed
Laid(nodeList, overflow) == [nodes |-> nodeList, overflow |-> overflow]

RECURSIVE layoutChildren(_, _, _, _)
RECURSIVE LayoutEach(_, _, _, _, _, _)
RECURSIVE LayoutRest(_, _, _, _, _, _)
\* layoutChildren; `room` is the number of frames the call stack still takes, and a call
\* without room throws RangeError (the engine's stack is finite, the recursion need not be)
layoutChildren(updatedNodes, parentId, parentPosition, room) ==
  IF room = 0 THEN Laid(updatedNodes, TRUE)
  ELSE LET children == getChildNodes(updatedNodes, parentId)
           childCount == Len(children)
           startX == parentPosition.x - ((childCount - 1) * NODE_SPACING_X) \div 2
           childY == parentPosition.y + NODE_SPACING_Y
       IN IF childCount = 0 THEN Laid(updatedNodes, FALSE)
          ELSE LayoutEach(updatedNodes, children, 1, startX, childY, room)

\* children.forEach((child, index) => ...) from the k-th child on
LayoutEach(updatedNodes, children, k, startX, childY, room) ==
  IF k > Len(children) THEN Laid(updatedNodes, FALSE)
  ELSE LET childIndex == findIndex(updatedNodes, children[k].id)
           childPosition == Position(startX + (k - 1) * NODE_SPACING_X, childY)
       IN LayoutRest(layoutChildren([updatedNodes EXCEPT ![childIndex].position = childPosition],
                                    children[k].id, childPosition, room - 1),
                     children, k, startX, childY, room)

\* the exception of a recursive call ends the forEach
LayoutRest(below, children, k, startX, childY, room) ==
  IF below.overflow THEN below
  ELSE LayoutEach(below.nodes, children, k + 1, startX, childY, room)

\* the frames a recursion over nodeList takes when no id is met twice on one path
StackRoom(nodeList) == Len(nodeList) + 1

\* generateTreeLayout: the laid out nodes, or RangeError
generateTreeLayout(nodeList, rootNodeId, startPosition) ==
  LET rootIndex == findIndex(nodeList, rootNodeId) IN
  IF rootIndex = 0 THEN Laid(nodeList, FALSE)
  ELSE layoutChildren([nodeList EXCEPT ![rootIndex].position = startPosition],
                      rootNodeId, startPosition, StackRoom(nodeList))

\* childrenByParent.get(key): the ids of the nodes with that parentId, in the order of the
\* list (key <<>> is '__root__')
ChildrenByParent(nodeList, key) ==
  LET under(n) == n.parentId = key
      listed == SelectSeq(nodeList, under)
  IN [i \in 1..Len(listed) |-> listed[i].id]

\* nodeById.get(id): new Map(entries) keeps the last entry of a key
NodeByIdLast(nodeList, id) ==
  nodeList[CHOOSE i \in 1..Len(nodeList) :
             nodeList[i].id = id /\ \A j \in (i + 1)..Len(nodeList) : nodeList[j].id # id]

\* a plausible slip: the level is not clamped at 6
HeadingLevelUnclamped(depth) == Max(2, depth + 2)

\* Math.min(6, Math.max(2, depth + 2))
HeadingLevel(depth) == Min(6, Max(2, depth + 2))

\* the heading `${'#'.repeat(level)} ${n.theme}` pushed for node n
ExportHeading(level, n) == [level |-> level, node |-> n]

RECURSIVE walk(_, _, _, _)
RECURSIVE WalkEach(_, _, _, _, _)
\* walk(id, depth); acc holds `visited` and the headings pushed to `lines` so far (the lines
\* of summary, content and '---' that follow a heading are not modelled)
walk(nodeList, id, depth, acc) ==
  IF id \in acc.visited THEN acc
  ELSE IF ~HasNode(nodeList, id) THEN [acc EXCEPT !.visited = @ \cup {id}]
  ELSE WalkEach(nodeList, ChildrenByParent(nodeList, <<id>>), 1, depth + 1,
                [visited |-> acc.visited \cup {id},
                 lines |-> Append(acc.lines,
                                  ExportHeading(HeadingLevel(depth), NodeByIdLast(nodeList, id)))])

\* for (const childId of children) walk(childId, depth) from the k-th id on
WalkEach(nodeList, children, k, depth, acc) ==
  IF k > Len(children) THEN acc
  ELSE WalkEach(nodeList, children, k + 1, depth, walk(nodeList, children[k], depth, acc))

\* handleExportMarkdown: the headings of the nodes, in the order of the file
exportMarkdown(nodeList) ==
  WalkEach(nodeList, ChildrenByParent(nodeList, <<>>), 1, 0, [visited |-> {}, lines |-> <<>>]).lines

\* ---- inputs ----
TreeIds == 1..MaxTreeIds

OldPositions == {Position(0, 0), Position(100, 100)}

NewPositions == {Position(0, 0), Position(30, 20)}

\* any node list: normalizeNode keeps the id and the parentId of the file, so ids repeat
\* and parentId links form cycles
TreeShapes ==
  {TreeNode(id, p, pos, "") : id \in TreeIds,
                              p \in {<<>>} \cup {<<q>> : q \in TreeIds},
                              pos \in OldPositions}

\* node i of a chain hangs under node i - 1 or is a root
Chains ==
  UNION {{[i \in 1..n |-> TreeNode(i, IF i \in roots THEN <<>> ELSE <<i - 1>>, Position(0, 0), "")] :
            roots \in {r \in SUBSET (1..n) : 1 \in r}} : n \in (MaxTreeLen + 1)..MaxChain}

\* the themes tell the nodes of a list apart
WithThemes(list) == [i \in 1..Len(list) |-> [list[i] EXCEPT !.theme = ToString(i)]]

TreeInputs == {WithThemes(list) : list \in SeqsUpTo(TreeShapes, MaxTreeLen) \cup Chains}

TreeInit ==
  /\ SyncIdle
  /\ AnimationIdle
  /\ OverlayIdle
  /\ ViewIdle
  /\ GraphIdle
  /\ treeNodes \in TreeInputs
  /\ treeCall = <<>>
  /\ depthWalk = <<>>

NoTreeCall == treeCall = <<>> /\ depthWalk = <<>>

NotTree == <<syncVars, animationRequests, projectVars, overlayVars, viewVars, storeVars, generationVars>>

UpdateNodePosition ==
  /\ NoTreeCall
  /\ \E nodeId \in TreeIds : \E newPosition \in NewPositions :
       treeCall' = <<[op |-> "updateNodePosition", id |-> nodeId, position |-> newPosition,
                      result |-> Laid(updateNodePosition(treeNodes, nodeId, newPosition), FALSE)]>>
  /\ UNCHANGED <<treeNodes, depthWalk, NotTree>>

GenerateTreeLayout ==
  /\ NoTreeCall
  /\ \E rootNodeId \in TreeIds :
       treeCall' = <<[op |-> "generateTreeLayout", id |-> rootNodeId, position |-> Position(0, 0),
                      result |-> generateTreeLayout(treeNodes, rootNodeId, Position(0, 0))]>>
  /\ UNCHANGED <<treeNodes, depthWalk, NotTree>>

HandleExportMarkdown ==
  /\ NoTreeCall
  /\ treeCall' = <<[op |-> "exportMarkdown", id |-> 0, position |-> Position(0, 0),
                    result |-> exportMarkdown(treeNodes)]>>
  /\ UNCHANGED <<treeNodes, depthWalk, NotTree>>

\* getNodeDepth is called for node i of the list: depth = 0, current = node
GetNodeDepth ==
  /\ NoTreeCall
  /\ \E i \in 1..Len(treeNodes) :
       depthWalk' = <<[node |-> i, current |-> treeNodes[i], depth |-> 0, returned |-> FALSE]>>
  /\ UNCHANGED <<treeNodes, treeCall, NotTree>>

\* one test of `while (current.parentId)` and the iteration or the return that follows it
GetNodeDepthStep ==
  /\ depthWalk # <<>>
  /\ ~depthWalk[1].returned
  /\ LET parent == getParentNode(treeNodes, depthWalk[1].current) IN
     depthWalk' = IF parent = <<>>
                  THEN <<[depthWalk[1] EXCEPT !.returned = TRUE]>>
                  ELSE <<[depthWalk[1] EXCEPT !.depth = Min(@ + 1, MaxDepthCount),
                                              !.current = parent[1]]>>
  /\ UNCHANGED <<treeNodes, treeCall, NotTree>>

TreeNext ==
  \/ UpdateNodePosition
  \/ GenerateTreeLayout
  \/ HandleExportMarkdown
  \/ GetNodeDepth
  \/ GetNodeDepthStep

SpecTree == TreeInit /\ [][TreeNext]_vars

\* the loop of getNodeDepth runs on while its test holds: nothing else can stop it
SpecTreeWalk == TreeInit /\ [][TreeNext]_vars /\ WF_vars(GetNodeDepthStep)

\* ---- properties of the tree utilities ----
RECURSIVE SubtreeIds(_, _)
\* the ids in `ids` and those of the nodes that hang under them, however deep
SubtreeIds(nodeList, ids) ==
  LET below == {nodeList[i].id : i \in {j \in 1..Len(nodeList) :
                                          nodeList[j].parentId # <<>> /\ nodeList[j].parentId[1] \in ids}}
  IN IF below \subseteq ids THEN ids ELSE SubtreeIds(nodeList, ids \cup below)

\* node i of the list is a descendant of the nodes with the id
IsDescendant(nodeList, i, id) ==
  nodeList[i].parentId # <<>> /\ nodeList[i].parentId[1] \in SubtreeIds(nodeList, {id})

Moved(call) == call # <<>> /\ call[1].op = "updateNodePosition" /\ HasNode(treeNodes, call[1].id)

\* C23 as stated: updateNodePosition(nodes, id, p) sets the position of the node to p, moves
\* every descendant of the node (children, grandchildren and deeper, following parentId) by
\* the same delta, and leaves the position of every other node as it was.
MoveTranslatesSubtree ==
  Moved(treeCall) =>
    LET call == treeCall[1]
        moved == findIndex(treeNodes, call.id)
        deltaX == call.position.x - treeNodes[moved].position.x
        deltaY == call.position.y - treeNodes[moved].position.y
    IN \A i \in 1..Len(treeNodes) :
         call.result.nodes[i].position =
           IF i = moved THEN call.position
           ELSE IF IsDescendant(treeNodes, i, call.id)
                THEN Position(treeNodes[i].position.x + deltaX, treeNodes[i].position.y + deltaY)
                ELSE treeNodes[i].position

RECURSIVE ParentDepth(_, _, _)
\* the number of parentId links from node n up to a node without parent, counted over at
\* most `links` links
ParentDepth(nodeList, n, links) ==
  IF links = 0 \/ getParentNode(nodeList, n) = <<>> THEN 0
  ELSE 1 + ParentDepth(nodeList, getParentNode(nodeList, n)[1], links - 1)

\* the place in the list of a node of the list (the themes are the places)
PlaceOf(nodeList, n) == CHOOSE i \in 1..Len(nodeList) : nodeList[i] = n

Exported(call) == call # <<>> /\ call[1].op = "exportMarkdown"

\* the headings of a file, out, follow the nodes of the list depth first, parents before
\* children: a heading is of a root or follows that of its parent, with only descendants
\* of the parent between them; roots and the children of one parent keep the order of the
\* list
PreOrder(nodeList, out) ==
  /\ \A b \in 1..Len(out) :
       \/ out[b].node.parentId = <<>>
       \/ \E a \in 1..(b - 1) :
            /\ out[a].node.id = out[b].node.parentId[1]
            /\ \A c \in (a + 1)..(b - 1) :
                 IsDescendant(nodeList, PlaceOf(nodeList, out[c].node), out[a].node.id)
  /\ \A a, b \in 1..Len(out) :
       (a < b /\ out[a].node.parentId = out[b].node.parentId)
         => PlaceOf(nodeList, out[a].node) < PlaceOf(nodeList, out[b].node)

\* the headings of out have the level of the depth of their node, held between 2 and top
LevelsByDepth(nodeList, out, top) ==
  \A a \in 1..Len(out) :
    out[a].level = Min(top, Max(2, ParentDepth(nodeList, out[a].node, Len(nodeList)) + 2))

\* C24 as stated: the export emits the nodes depth first in pre-order, starting from the nodes
\* without parentId, each node at most once, and the heading of a node at parentId depth d
\* has the level min(6, max(2, d + 2)).
ExportOrderAndLevels ==
  Exported(treeCall) =>
    LET out == treeCall[1].result IN
    /\ \A a, b \in 1..Len(out) : a # b => out[a].node # out[b].node
    /\ PreOrder(treeNodes, out)
    /\ LevelsByDepth(treeNodes, out, 6)

DistinctIds(nodeList) == \A i, j \in 1..Len(nodeList) : i # j => nodeList[i].id # nodeList[j].id

\* C24 (amended): the export emits each id at most once, with the last node of the list
\* that carries the id and a level from 2 to 6; when the ids of the nodes are pairwise
\* distinct it emits the nodes depth first in pre-order, starting from the nodes without
\* parentId, and the heading of a node at parentId depth d has the level min(6, max(2, d + 2)).
ExportOrderAndLevelsById ==
  Exported(treeCall) =>
    LET out == treeCall[1].result IN
    /\ \A a, b \in 1..Len(out) : a # b => out[a].node.id # out[b].node.id
    /\ \A a \in 1..Len(out) : /\ out[a].node = NodeByIdLast(treeNodes, out[a].node.id)
                              /\ out[a].level \in 2..6
    /\ DistinctIds(treeNodes) => PreOrder(treeNodes, out) /\ LevelsByDepth(treeNodes, out, 6)

\* C24 witness: a file was exported whose nodes have distinct ids, with a heading of a child
\* right after that of its parent and a heading held at level 6 for a node of depth 5 or more
ExportOrderAndLevelsByIdWitness ==
  /\ Exported(treeCall)
  /\ DistinctIds(treeNodes)
  /\ LET out == treeCall[1].result IN
     /\ \E a \in 1..(Len(out) - 1) : out[a + 1].node.parentId = <<out[a].node.id>>
     /\ \E a \in 1..Len(out) : /\ out[a].level = 6
                               /\ ParentDepth(treeNodes, out[a].node, Len(treeNodes)) >= 5

\* C27: whatever addNode, updateNode and deleteNode made of the store, the Markdown export
\* of its nodes has exactly one heading for each node of the store, also for a node whose
\* parent was deleted.
ExportComplete ==
  \A i \in 1..Len(nodes) :
    Cardinality({a \in 1..Len(exportMarkdown(nodes)) : exportMarkdown(nodes)[a].node = nodes[i]}) = 1

\* every call of getNodeDepth returns
GetNodeDepthReturns == (depthWalk # <<>>) ~> (depthWalk # <<>> /\ depthWalk[1].returned)

\* no call of generateTreeLayout ends in RangeError, the end of a recursion without end
GenerateTreeLayoutReturns ==
  (treeCall # <<>> /\ treeCall[1].op = "generateTreeLayout") => ~treeCall[1].result.overflow

\* C28: getNodeDepth(nodes, n) and generateTreeLayout(nodes, root) terminate for every node
\* list that the store and the JSON import can produce, also when parentId links form a
\* cycle or a node is its own parent.
TreeWalksTerminate == GetNodeDepthReturns /\ []GenerateTreeLayoutReturns

\* C29: the ids of the mind-map nodes made from the headings of a document are pairwise
\* distinct and differ from the id of the root, so the section extracted for a selected
\* node is that of the heading the node was made from.
MindmapIdsUnique ==
  mindmapData # <<>> =>
    /\ \A i, j \in 1..Len(mindmapData[1].nodes) :
         i # j => mindmapData[1].nodes[i].id # mindmapData[1].nodes[j].id
    /\ \A k \in 1..Len(dvToc) :
         selectedMindmapNode = <<MindmapNodeId(dvToc[k], k - 1)>>
           => FindAnchor(dvToc, selectedMindmapNode[1]) = k - 1

\* C26: a run of saveCurrentProjectToBackend, with or without a current project in the
\* store and whether the request succeeds or fails, leaves the nodes and the edges of the
\* store as they were.
SaveKeepsGraph ==
  [][(SaveCurrentProjectToBackend \/ SaveWithoutProject) => (nodes' = nodes /\ edges' = edges)]_vars

\* ------------------------------------------------------------------------
\* WorkspacePage: the load of the remote project and the saves that the
\* effect on [nodes, edges] starts, against the project table of the backend
\* ------------------------------------------------------------------------
MaxSavedLen == 2

\* the id of the project the user saved before
SavedProjectId == "saved"
\* the id crypto.randomUUID() gives to the project of createProject
CreatedProjectId == "created"

\* a project as the backend stores it and as the requests carry it
SavedProject(id, nodeList, edgeList) == [id |-> id, nodes |-> nodeList, edges |-> edgeList]

\* a request to /projects/current: GET (load) or POST (save); `project` is what a save
\* carries and what a served load answers (absent = null)
HttpRequest(kind, stage, project) == [kind |-> kind, stage |-> stage, project |-> project]

\* getCurrentForUser: ORDER BY COALESCE(last_opened_at, ...) DESC LIMIT 1
getCurrentForUser(rows) == IF rows = <<>> THEN <<>> ELSE <<rows[Len(rows)]>>

\* saveForUser: the row of the id is inserted or updated with last_opened_at = now; rows
\* lists every save in the order of last_opened_at, and an earlier row of the same id
\* stands for what the update replaced
saveForUser(rows, project) == Append(rows, project)

\* the projects a user saved before: at least one node, edges between its nodes
SavedProjects ==
  {SavedProject(SavedProjectId, nodeList, edgeList) :
     nodeList \in SeqsUpTo(NodeInputs, MaxSavedLen) \ {<<>>},
     edgeList \in SeqsUpTo({NewEdge(1, a, b, "") : a \in StoreIds, b \in StoreIds}, 1)}

\* an authenticated user with a saved project opens the application on a client whose
\* store is empty; the workspace page is not mounted yet
SyncInit ==
  /\ TreeIdle
  /\ AnimationIdle
  /\ OverlayIdle
  /\ ViewIdle
  /\ EmptyStore
  /\ storeOp = NoCall
  /\ GenerationIdle
  /\ ProjectIdle
  /\ \E project \in SavedProjects : backend = <<project>>
  /\ http = <<>>
  /\ saveDue = FALSE
  /\ projectId = ""

NotSync ==
  <<treeVars, animationRequests, projectVars, overlayVars, viewVars, storeOp, generationVars>>

\* the effects of the mounted page: loadRemoteProject sends its GET, and the effect on
\* [nodes, edges] is scheduled
EnterWorkspace ==
  /\ http = <<>>
  /\ ~saveDue
  /\ http' = <<HttpRequest("load", "sent", <<>>)>>
  /\ saveDue' = TRUE
  /\ UNCHANGED <<backend, projectId, nodes, edges, currentProject, NotSync>>

\* the effect on [nodes, edges] runs saveCurrentProjectToBackend up to the POST: the lists
\* are read, a project is created when there is none (which stores new lists, so that the
\* effect is scheduled again), and the lists read are sent
ContentEffect ==
  /\ saveDue
  /\ IF projectId = ""
     THEN /\ SetStore(createProject(Store))
          /\ projectId' = CreatedProjectId
          /\ saveDue' = TRUE
          /\ http' = Append(http, HttpRequest("save", "sent",
                                              <<SavedProject(CreatedProjectId, nodes, edges)>>))
     ELSE /\ UNCHANGED <<nodes, edges, currentProject, projectId>>
          /\ saveDue' = FALSE
          /\ http' = Append(http, HttpRequest("save", "sent",
                                              <<SavedProject(projectId, nodes, edges)>>))
  /\ UNCHANGED <<backend, NotSync>>

\* the backend answers a GET with the current project of the user
ServeLoad ==
  /\ \E k \in 1..Len(http) :
       /\ http[k].kind = "load"
       /\ http[k].stage = "sent"
       /\ http' = [http EXCEPT ![k] = HttpRequest("load", "served", getCurrentForUser(backend))]
  /\ UNCHANGED <<backend, saveDue, projectId, nodes, edges, currentProject, NotSync>>

\* the backend stores the project of a POST
ServeSave ==
  /\ \E k \in 1..Len(http) :
       /\ http[k].kind = "save"
       /\ http[k].stage = "sent"
       /\ backend' = saveForUser(backend, http[k].project[1])
       /\ http' = [http EXCEPT ![k].stage = "served"]
  /\ UNCHANGED <<saveDue, projectId, nodes, edges, currentProject, NotSync>>

\* loadRemoteProject after its await: the answer becomes the current project, which stores
\* new lists and schedules the effect; null is ignored
LoadArrives ==
  /\ \E k \in 1..Len(http) :
       /\ http[k].kind = "load"
       /\ http[k].stage = "served"
       /\ http' = [http EXCEPT ![k].stage = "done"]
       /\ IF http[k].project = <<>>
          THEN UNCHANGED <<nodes, edges, currentProject, projectId, saveDue>>
          ELSE /\ SetStore(setCurrentProject(Project(http[k].project[1].nodes,
                                                     http[k].project[1].edges)))
               /\ projectId' = http[k].project[1].id
               /\ saveDue' = TRUE
  /\ UNCHANGED <<backend, NotSync>>

\* saveCurrentProjectToBackend after its last await: nothing is left to do
SaveArrives ==
  /\ \E k \in 1..Len(http) :
       /\ http[k].kind = "save"
       /\ http[k].stage = "served"
       /\ http' = [http EXCEPT ![k].stage = "done"]
  /\ UNCHANGED <<backend, saveDue, projectId, nodes, edges, currentProject, NotSync>>

SyncNext ==
  \/ EnterWorkspace
  \/ ContentEffect
  \/ ServeLoad
  \/ ServeSave
  \/ LoadArrives
  \/ SaveArrives

SpecSync == SyncInit /\ [][SyncNext]_vars

\* the load and every save it led to have completed
Synced ==
  /\ http # <<>>
  /\ ~saveDue
  /\ \A k \in 1..Len(http) : http[k].stage = "done"

\* C25: once the load of the remote project and all the saves it started have completed,
\* whatever their interleaving, the nodes and edges of the store are those of the project
\* that was saved before, and the current project of the backend still has them.
SyncKeepsSavedProject ==
  Synced =>
    /\ nodes = backend[1].nodes
    /\ edges = backend[1].edges
    /\ getCurrentForUser(backend)[1].nodes = backend[1].nodes
    /\ getCurrentForUser(backend)[1].edges = backend[1].edges

\* ------------------------------------------------------------------------
\* NodeDetailView.handleToolbarAction('generate_animation')
\* ------------------------------------------------------------------------
MaxAnimations == 2

\* the placeholder of an animation (filePath, title and code are left out)
NewAnimation(id, note, range) ==
  [id |-> id, meta |-> [status |-> "generating", note |-> note, range |-> range]]

\* the node of the project of AnimationInit, with the list of its animations
AnimatedNode ==
  [id |-> 1, parentId |-> <<>>, status |-> "completed", summary |-> <<>>,
   contentMd |-> <<"a", "b">>, toc |-> <<>>, annotations |-> <<>>, animations |-> <<>>]

\* a call of generateAnimationSafe: the node of the closure, how the call stands, and
\* whether another call for the node was in flight while this one was
AnimationRequest(nodeId, status, together) ==
  [nodeId |-> nodeId, status |-> status, together |-> together]

InFlight(nodeId) ==
  {id \in 1..Len(animationRequests) :
     animationRequests[id].nodeId = nodeId /\ animationRequests[id].status = "generating"}

\* currentNode.animations.map(a => a.id === animationId ? {...a, meta: {...a.meta, status}} : a)
WithStatus(animations, animationId, status) ==
  [k \in 1..Len(animations) |->
     IF animations[k].id = animationId
     THEN [animations[k] EXCEPT !.meta.status = status]
     ELSE animations[k]]

\* a project with one generated node is open on the canvas
AnimationInit ==
  /\ TreeIdle
  /\ SyncIdle
  /\ OverlayIdle
  /\ ViewIdle
  /\ GenerationIdle
  /\ ProjectIdle
  /\ storeOp = NoCall
  /\ nodes = <<AnimatedNode>>
  /\ edges = <<>>
  /\ currentProject = Project(nodes, edges)
  /\ animationRequests = <<>>

\* handleToolbarAction('generate_animation') up to the call of generateAnimationSafe: the
\* placeholder is appended to the animations of the node the detail view was opened on
GenerateAnimation ==
  /\ selectedNode # <<>>
  /\ Len(animationRequests) < MaxAnimations
  /\ \E sel \in Selections(DetailNode.contentMd) :
       SetStore(updateNode(Store, DetailNode.id,
                           [animations |-> Append(DetailNode.animations,
                                                  NewAnimation(Len(animationRequests) + 1,
                                                               sel.text, sel.range))]))
  /\ animationRequests' =
       Append([id \in 1..Len(animationRequests) |->
                 IF id \in InFlight(DetailNode.id)
                 THEN [animationRequests[id] EXCEPT !.together = TRUE]
                 ELSE animationRequests[id]],
              AnimationRequest(DetailNode.id, "generating", InFlight(DetailNode.id) # {}))
  /\ settled' = <<>>
  /\ UNCHANGED <<selectedNode, importing, importError, remote, nextAnnotationId, nodeContext>>
  /\ UNCHANGED <<syncVars, treeVars, overlayVars, viewVars, storeOp, requests, ideaLoop, nextNodeId, nextEdgeId, gestures>>

\* the end of the call for animation id: the node is read from the store and the status
\* of the animation with the id is set in its list
AnimationSettles(id, status) ==
  /\ animationRequests[id].status = "generating"
  /\ animationRequests' = [animationRequests EXCEPT ![id].status = status]
  /\ IF HasNode(nodes, animationRequests[id].nodeId)
     THEN SetStore(updateNode(Store, animationRequests[id].nodeId,
                              [animations |->
                                 WithStatus(NodeById(nodes, animationRequests[id].nodeId).animations,
                                            id, status)]))
     ELSE UNCHANGED <<nodes, edges, currentProject>>
  /\ settled' = <<>>
  /\ UNCHANGED <<selectedNode, importing, importError, remote, nextAnnotationId, nodeContext>>
  /\ UNCHANGED <<syncVars, treeVars, overlayVars, viewVars, storeOp, requests, ideaLoop, nextNodeId, nextEdgeId, gestures>>

\* generateAnimationSafe resolved
AnimationResolved == \E id \in 1..Len(animationRequests) : AnimationSettles(id, "completed")

\* generateAnimationSafe rejected or timed out
AnimationRejected == \E id \in 1..Len(animationRequests) : AnimationSettles(id, "error")

AnimationNext ==
  \/ OnNodeDoubleClick
  \/ OnDetailClose
  \/ GenerateAnimation
  \/ AnimationResolved
  \/ AnimationRejected
  \/ Favorite

SpecAnimation == AnimationInit /\ [][AnimationNext]_vars

\* the animations of the node with the id, none when the node is gone
AnimationsOf(nodeList, nodeId) ==
  IF HasNode(nodeList, nodeId) THEN NodeById(nodeList, nodeId).animations ELSE <<>>

\* the calls that were in flight together with another call have all ended, and the
\* animation of each is on its node with the status its own call ended with
OwnStatusKept ==
  (\A id \in 1..Len(animationRequests) : animationRequests[id].status # "generating") =>
    \A id \in 1..Len(animationRequests) :
      (animationRequests[id].together /\ HasNode(nodes, animationRequests[id].nodeId)) =>
        \E k \in 1..Len(AnimationsOf(nodes, animationRequests[id].nodeId)) :
          /\ AnimationsOf(nodes, animationRequests[id].nodeId)[k].id = id
          /\ AnimationsOf(nodes, animationRequests[id].nodeId)[k].meta.status
               = animationRequests[id].status

\* the end of a call keeps the annotations of every node and every animation of another id
SettlingKeepsOthers ==
  [][(AnimationResolved \/ AnimationRejected) =>
       /\ Len(nodes') = Len(nodes)
       /\ \A i \in 1..Len(nodes) :
            /\ nodes'[i].annotations = nodes[i].annotations
            /\ Len(nodes'[i].animations) = Len(nodes[i].animations)
            /\ \A k \in 1..Len(nodes[i].animations) :
                 \/ nodes'[i].animations[k] = nodes[i].animations[k]
                 \/ /\ nodes[i].animations[k].meta.status = "generating"
                    /\ nodes'[i].animations[k].id = nodes[i].animations[k].id]_vars

\* C30: when several generations of animations for one node are in flight at once, then
\* after all of them have ended each of these animations is on the node with the status,
\* completed or error, of its own call, none is left generating, and the annotations and
\* animations added to the node meanwhile are kept.
AnimationsNotClobbered == []OwnStatusKept /\ SettlingKeepsOthers

\* C30 witness: two calls for one node were in flight together and have ended, one
\* completed and one in error, a favorite was added meanwhile, and the node has both
\* animations with the status of their calls and the favorite
AnimationsNotClobberedWitness ==
  /\ Len(animationRequests) = 2
  /\ animationRequests[1] = AnimationRequest(1, "completed", TRUE)
  /\ animationRequests[2] = AnimationRequest(1, "error", TRUE)
  /\ Len(nodes) = 1
  /\ Len(nodes[1].annotations) = 1
  /\ Len(nodes[1].animations) = 2
  /\ nodes[1].animations[1].meta.status = "completed"
  /\ nodes[1].animations[2].meta.status = "error"

====
